---- MODULE Spec2Model ----
(***************************************************************************)
(* netquery: the multi-device execution engine (core.query_machines), the  *)
(* group / device-type / regex validators (utils_new) and the web          *)
(* transport's execute and stream operations (ui/web/server.py).           *)
(*                                                                         *)
(* Python values are modelled as follows.  A dict is a sequence of its     *)
(* items in insertion order (dicts iterate in insertion order) with unique *)
(* keys.  A text (command output, regex literal) is a sequence of tokens.  *)
(* None is the string "None"; a key that a dict does not hold is the       *)
(* string "<absent>".  An exception is named by its class.                 *)
(***************************************************************************)
EXTENDS Integers, Sequences, FiniteSets, TLC

None == "None"
Absent == "<absent>"

\* Longest requested group list the model enumerates.
MaxReq == 2

(***************************************************************************)
(* The inventory: MultipleMachines = {filename: {group: {label: machine}}} *)
(***************************************************************************)
Machine(host, dt) ==
  [host |-> host, device_type |-> dt, session_log |-> Absent,
   username |-> Absent, password |-> Absent]
Dev(label, machine) == [label |-> label, machine |-> machine]
Grp(name, devices) == [name |-> name, devices |-> devices]
File(name, groups) == [name |-> name, groups |-> groups]

Plain(host) == Machine(host, Absent)
\* A descriptor that names a session_log of its own.
Diverted(host, path) == [Plain(host) EXCEPT !.session_log = path]
\* A descriptor that names credentials of its own.
Login(host, user, pass) ==
  [Plain(host) EXCEPT !.username = user, !.password = pass]

\* Inventories that vary the sources, the groups of each source (insertion
\* order differing from the alphabetical one) and the labels of each group.
EnumInventories ==
  { << File("f1", << Grp("a", << Dev("r1", Plain("10.0.0.1")) >>) >>) >>,
    << File("f1", << Grp("b", << Dev("r2", Plain("10.0.0.2")),
                                 Dev("r1", Plain("10.0.0.1")) >>),
                     Grp("a", << Dev("r3", Plain("10.0.0.3")) >>) >>) >>,
    << File("f2", << Grp("a", << Dev("r1", Plain("10.0.0.1")),
                                 Dev("r2", Plain("10.0.0.2")) >>) >>),
       File("f1", << Grp("b", << Dev("r1", Plain("10.0.1.1")) >>),
                     Grp("a", << Dev("r3", Plain("10.0.1.3")) >>) >>) >>,
    << File("f1", << Grp("a", << >>) >>),
       File("f2", << Grp("b", << Dev("r1", Plain("10.0.0.1")) >>) >>) >> }

\* Inventories of one source and one group that vary the device descriptor.
DeviceInventories ==
  { << File("f1", << Grp("core", << Dev("r1", Plain("10.0.0.1")),
                                    Dev("r2", Plain("10.0.0.2")) >>) >>) >>,
    << File("f1", << Grp("core", << Dev("r1", Machine("10.0.0.1", "autodetect")),
                                    Dev("r2", Machine("10.0.0.2", "linux")) >>) >>) >>,
    << File("f1", << Grp("core", << Dev("r1", Plain(Absent)),
                                    Dev("r2", Plain("10.0.0.2")) >>) >>) >>,
    << File("f1", << Grp("core", << Dev("r1", Machine("10.0.0.1", "")),
                                    Dev("r2", Machine(Absent, "autodetect")) >>) >>) >>,
    << File("f1", << Grp("core", << Dev("r1", Diverted("10.0.0.1", "r1.log")),
                                    Dev("r2", Login("10.0.0.2", "netops", "s3cret")) >>) >>) >> }

\* Names a caller may list: two groups of the inventories, the selector and a
\* name no inventory holds.
ReqNames == {"a", "b", "all", "zz"}
Requests == UNION {[1..n -> ReqNames] : n \in 1..MaxReq}

GroupNames(file) == {file.groups[k].name : k \in DOMAIN file.groups}
\* `group in machines[filename]`
HasGroup(file, group) == group \in GroupNames(file)
\* `machines[filename][group]`
GetGroup(file, group) ==
  file.groups[CHOOSE k \in DOMAIN file.groups : file.groups[k].name = group]

(***************************************************************************)
(* utils_new.validate_groups.  list(set) iterates the set in the order of  *)
(* the strings' hashes, which Python randomises per process: every order   *)
(* of the set is a possible result.                                        *)
(***************************************************************************)
AllGroups(machines) == UNION {GroupNames(machines[f]) : f \in DOMAIN machines}

ListOfSet(S) ==
  {l \in [1..Cardinality(S) -> S] :
     \A x, y \in 1..Cardinality(S) : x # y => l[x] # l[y]}

Returned(v) == [raised |-> None, value |-> v]
Raised(e) == [raised |-> e, value |-> << >>]

\* A faulty variant: "all" expands to the groups of the first source only.
validate_groups_first_source(machines, groups) ==
  IF groups[1] = "all"
  THEN {Returned(l) : l \in ListOfSet(GroupNames(machines[1]))}
  ELSE IF ~ \A k \in DOMAIN groups :
              \E f \in DOMAIN machines : HasGroup(machines[f], groups[k])
       THEN {Raised("KeyError")}
       ELSE {Returned(groups)}

validate_groups(machines, groups) ==
  IF groups[1] = "all"
  THEN {Returned(l) : l \in ListOfSet(AllGroups(machines))}
  ELSE IF ~ \A k \in DOMAIN groups :
              \E f \in DOMAIN machines : HasGroup(machines[f], groups[k])
       THEN {Raised("KeyError")}
       ELSE {Returned(groups)}

(***************************************************************************)
(* utils_new.validate_device_type and utils_new.parse_regex                *)
(***************************************************************************)
\* netmiko's CLASS_MAPPER.keys(), cut to the types the model uses.
SUPPORTED_DEVICE_TYPES == {"autodetect", "linux", "cisco_ios"}

\* A faulty variant: every device type is accepted.
validate_device_type_lenient(device_type) ==
  [raised |-> None, value |-> device_type]

validate_device_type(device_type) ==
  IF device_type \notin SUPPORTED_DEVICE_TYPES
  THEN Raised("ValueError")
  ELSE [raised |-> None, value |-> device_type]

\* A faulty variant: only the platform names are accepted, not the sentinel.
utils_validate_device_type_platforms_only(device_type) ==
  IF device_type \notin SUPPORTED_DEVICE_TYPES \ {"autodetect"}
  THEN Raised("UsageError")
  ELSE [raised |-> None, value |-> device_type]

\* utils.validate_device_type, the callback of the command line: the same
\* test, refused with click's UsageError.
utils_validate_device_type(device_type) ==
  IF device_type \notin SUPPORTED_DEVICE_TYPES
  THEN Raised("UsageError")
  ELSE [raised |-> None, value |-> device_type]

\* A compiled pattern: an alternation of literals (in the order of the
\* pattern), optionally anchored at the start of the text.  `set` is FALSE
\* for None (filtering disabled).
NoPattern == [set |-> FALSE, anchored |-> FALSE, alts |-> << >>]
Pattern(anchored, alts) == [set |-> TRUE, anchored |-> anchored, alts |-> alts]

\* The regex strings of the model: disabled, "^ERROR", "link" and a malformed one.
RegexStrings == {"", "^ERROR", "link", "("}

parse_regex(regex) ==
  IF regex = "" THEN [raised |-> None, value |-> NoPattern]
  ELSE IF regex = "(" THEN [raised |-> "re.error", value |-> NoPattern]
  ELSE IF regex = "^ERROR"
       THEN [raised |-> None, value |-> Pattern(TRUE, << << "ERROR" >> >>)]
  ELSE IF regex = "up|link"
       THEN [raised |-> None,
             value |-> Pattern(FALSE, << << "up" >>, << "link" >> >>)]
       ELSE [raised |-> None, value |-> Pattern(FALSE, << << regex >> >>)]

Min(S) == CHOOSE x \in S : \A y \in S : x <= y
Max(S) == CHOOSE x \in S : \A y \in S : x >= y

\* The alternatives of a pattern that match the text at position s.
MatchesAt(pattern, text, s) ==
  {a \in DOMAIN pattern.alts :
     /\ s + Len(pattern.alts[a]) - 1 <= Len(text)
     /\ SubSeq(text, s, s + Len(pattern.alts[a]) - 1) = pattern.alts[a]
     /\ pattern.anchored => s = 1}

Starts(pattern, text) ==
  {s \in DOMAIN text : MatchesAt(pattern, text, s) # {}}

MatchFrom(pattern, text, s) ==
  [found |-> TRUE,
   group |-> SubSeq(text, s,
                    s + Len(pattern.alts[Min(MatchesAt(pattern, text, s))]) - 1)]

\* Pattern.search(text): the leftmost match, or no match.
NoMatch == [found |-> FALSE, group |-> << >>]

\* A faulty variant: the rightmost match.
search_last(pattern, text) ==
  IF Starts(pattern, text) = {} THEN NoMatch
  ELSE MatchFrom(pattern, text, Max(Starts(pattern, text)))

search(pattern, text) ==
  IF Starts(pattern, text) = {} THEN NoMatch
  ELSE MatchFrom(pattern, text, Min(Starts(pattern, text)))

(***************************************************************************)
(* core.query_machines: the flattened work list                            *)
(***************************************************************************)
RECURSIVE Flatten(_)
Flatten(ss) == IF ss = << >> THEN << >> ELSE Head(ss) \o Flatten(Tail(ss))

\* for label, machine in machines[filename][group].items()
WorkOfGroup(file, group) ==
  LET g == GetGroup(file, group)
  IN [k \in 1..Len(g.devices) |->
        [filename |-> file.name, group |-> group,
         label |-> g.devices[k].label, machine |-> g.devices[k].machine]]

\* for group in groups if group in machines[filename]
WorkOfFile(file, groups) ==
  Flatten([k \in 1..Len(groups) |->
             IF HasGroup(file, groups[k]) THEN WorkOfGroup(file, groups[k])
             ELSE << >>])

\* A faulty variant: the group loop is the outer one.
Work_group_major(machines, groups) ==
  Flatten([k \in 1..Len(groups) |->
    Flatten([f \in 1..Len(machines) |->
      IF HasGroup(machines[f], groups[k]) THEN WorkOfGroup(machines[f], groups[k])
      ELSE << >>])])

\* for filename in machines
Work(machines, groups) ==
  Flatten([f \in 1..Len(machines) |-> WorkOfFile(machines[f], groups)])

(***************************************************************************)
(* Results, exceptions and the session collaborator                        *)
(***************************************************************************)
\* A result is a str or an exception instance (its class and its argument).
NoResult == [type |-> "unset", class |-> None, value |-> << >>]
Str(text) == [type |-> "str", class |-> "str", value |-> text]
Exc(class, arg) == [type |-> "exc", class |-> class, value |-> arg]
\* The marker of core.py line 76.
Accessible == Str(<< "Accessible" >>)

NoExc == [class |-> None, at |-> None]

\* What a command may print on a device.
Texts == { << "OK:", "link", "up" >>, << "ERROR", "link", "down" >> }

\* What netmiko raises: an authentication failure, a timeout, anything else.
NetmikoRaises ==
  {"NetmikoAuthenticationException", "NetmikoTimeoutException", "ReadException"}

\* A chunk of the session transcript: the device it came from and whether its
\* bytes are valid UTF-8.
Chunk(dev, utf8) == [dev |-> dev, utf8 |-> utf8]

\* A call of a netmiko constructor: SSHDetect(**device).autodetect() with the
\* type it returned, or ConnectHandler(**device).
Call(fn, dev, returned) == [fn |-> fn, device |-> dev, returned |-> returned]

\* A faulty variant: the two netmiko except clauses are swapped.
Except_swapped(class) ==
  IF class = "NetmikoAuthenticationException"
  THEN Exc("NetqueryTimeoutException", << >>)
  ELSE IF class = "NetmikoTimeoutException"
       THEN Exc("NetqueryUnauthorizedException", << >>)
       ELSE Exc(class, << >>)

\* core.py lines 126-131: the except clauses of the per-device try.
Except(class) ==
  IF class = "NetmikoAuthenticationException"
  THEN Exc("NetqueryUnauthorizedException", << >>)
  ELSE IF class = "NetmikoTimeoutException"
       THEN Exc("NetqueryTimeoutException", << >>)
       ELSE Exc(class, << >>)

\* The run-wide credentials handed to query_machines.
username == "operator"
password == "hunter2"

\* core.py lines 55-60: the first operand of the merge.
Defaults(device_type) ==
  [host |-> Absent, username |-> username, password |-> password,
   device_type |-> device_type, session_log |-> "BytesIO"]

\* {**machine, **defaults}: the operands of the merge swapped.
Merge_defaults_win(device_type, machine) ==
  [key \in DOMAIN machine |->
     IF Defaults(device_type)[key] = Absent THEN machine[key]
     ELSE Defaults(device_type)[key]]

\* core.py lines 54-62: {**defaults, **machine}
Merge(device_type, machine) ==
  [key \in DOMAIN machine |->
     IF machine[key] = Absent THEN Defaults(device_type)[key]
     ELSE machine[key]]

NoDevice == [Defaults(None) EXCEPT !.username = Absent, !.password = Absent]

\* Line 53: `with BytesIO() as log`, a new buffer for each device.
Fresh(buffer) == << >>

\* netmiko writes the transcript to the session_log of the parameters: the
\* buffer of line 53 unless the descriptor named another one.
Write(dev, buffer, chunk) ==
  IF dev.session_log = "BytesIO" THEN Append(buffer, chunk) ELSE buffer
NoEnvelope ==
  [filename |-> None, group |-> None, label |-> None, hostname |-> None,
   ip |-> None, device_type |-> None, result |-> NoResult, log |-> << >>,
   progress |-> << 0, 0 >>]

\* A ServerSentEvent, and none sent yet.
ServerSentEvent(name, data) == [event |-> name, data |-> data]
NoEvent == ServerSentEvent(None, << >>)

\* No DataFrame yet, and no output file written.
NoFrame == [columns |-> << >>, data |-> << >>]
NoFile == [output |-> None, writer |-> None, frame |-> NoFrame, warning |-> None]

(***************************************************************************)
(* server.cache: the pending streams                                       *)
(***************************************************************************)
\* TTLCache(25, 300) (server.py 34-36): at most 25 entries, each for 300 s.
maxsize == 25
ttl == 300

\* str(uuid4()) of the n-th registration.
Id(n) == "id" \o ToString(n)

\* The entry of a key stored at time t.
Entry(key, t) == [key |-> key, expires |-> t + ttl]

\* TTLCache.expire(time): the entries whose time has not come stay.
expire(c, t) == SelectSeq(c, LAMBDA e : t < e.expires)

\* A faulty variant: a store that never looks at the clock.
contains_any_age(c, key, t) == \E k \in DOMAIN c : c[k].key = key

\* `key in cache`: an entry whose time has come counts as missing.
contains(c, key, t) == \E k \in DOMAIN c : c[k].key = key /\ t < c[k].expires

\* `cache[key] = value` for a new key: the expired entries go, then the
\* oldest entry while the cache is full, and the new entry is put last.
setitem(c, key, t) ==
  Append(IF Len(expire(c, t)) >= maxsize THEN Tail(expire(c, t)) ELSE expire(c, t),
         Entry(key, t))

\* `del cache[key]`.
delitem(c, key) == SelectSeq(c, LAMBDA e : e.key # key)

\* No call of server.stream yet.
NoResponse == [id |-> None, raised |-> None, value |-> None]

(***************************************************************************)
(* State                                                                   *)
(***************************************************************************)
VARIABLES
  args,          \* the caller's inputs: the form of execute, or the arguments
                 \* of a direct call of validate_groups and query_machines
  pc,            \* where the run is
  error,         \* the error the request or call ended with ("" if none)
  cache,         \* server.cache: the entries of the TTLCache, oldest first
  groups,        \* parsed["groups"]: the resolved group list
  rerun_groups,  \* the resolved group list of a second run on the same inputs
  output_regex,  \* parsed["output_regex"]
  work,          \* query_machines' work list
  i,             \* query_machines' enumerate index
  device,        \* the merged session parameters of the device in hand
  log,           \* its BytesIO transcript
  session,       \* its ConnectHandler session: "none", "open" or "closed"
  sent,          \* the send_command / send_multiline calls made on it
  raw,           \* what the session returned for the commands
  exc,           \* the exception raised inside its try block
  calls,         \* the SSHDetect and ConnectHandler calls made for it
  result,        \* its result
  envelope,      \* the envelope yielded last
  emitted,       \* (filename, group, label, progress) of every envelope yielded
  contacted,     \* whether any device was contacted (SSHDetect or ConnectHandler)
  results,       \* main.query: the rows appended so far
  df,            \* main.query: the sorted DataFrame
  df_clean,      \* main.query: the DataFrame on display
  output_file,   \* main.query: the writer called and the frame it was given
  stop,          \* server.stop: the ids that have a cancellation Event
  event,         \* whether the Event of the generator is set
  disconnected,  \* req.is_disconnected()
  events,        \* (event, progress) of every ServerSentEvent the stream sent
  last_event,    \* the ServerSentEvent sent last
  now,           \* the clock of the TTLCache (time.monotonic), in seconds
  registered,    \* (key, time) of every registration execute made
  response,      \* what the last call of server.stream returned or raised
  streams,       \* the ids whose generator server.stream created
  requested,     \* whether the consumer of the sequence awaits its next item
  gens           \* the stream generators of several ids running side by side

vars == << args, pc, error, cache, groups, rerun_groups, output_regex, work, i,
           device, log, session, sent, raw, exc, calls, result, envelope,
           emitted, contacted, results, df, df_clean, output_file, stop, event,
           disconnected, events, last_event, now, registered, response,
           streams, requested, gens >>

deviceVars == << device, log, session, sent, raw, exc, calls, result >>
outVars == << envelope, emitted >>
cliVars == << results, df, df_clean, output_file >>
webVars == << stop, event, disconnected, events, last_event >>
storeVars == << now, registered, response, streams >>

\* The one stream id of the model (uuid4 of execute).
StreamId == "id1"

\* The ids of the streams that run side by side.
StreamIds == {"id1", "id2"}
\* A generator function that server.stream has not called yet.
NoGen == [pc |-> "pending", set |-> FALSE, asked |-> FALSE, gone |-> FALSE,
          fetched |-> 0, sent |-> << >>]

\* Command lists and prompt-pattern lists.
CmdLists == { << >>, << "" >>, << "show version" >>, << "", "show version" >>,
              << "conf t", "reload" >> }
PatternLists == { << >>, << "" >>, << "#" >>, << "#", "confirm" >> }

\* A direct call that varies the inventory and the requested groups.
EnumArgs ==
  [via : {"api"}, fileOk : {TRUE}, machines : EnumInventories,
   groups : Requests, device_type : {"linux"}, cmds : { << "show version" >> },
   prompt_patterns : { << "" >> }, output_regex : {""}]

\* A direct call that varies the device descriptors and the query parameters.
DeviceArgs ==
  [via : {"api"}, fileOk : {TRUE}, machines : DeviceInventories,
   groups : { << "core" >> }, device_type : {"autodetect", "linux"},
   cmds : CmdLists, prompt_patterns : PatternLists,
   output_regex : {"", "^ERROR", "up|link"}]

\* A form posted to execute; split(",") never returns an empty list.  An
\* unparsable upload has no inventory.
WebArgs ==
  [via : {"web"}, fileOk : {TRUE}, machines : EnumInventories,
   groups : {r \in Requests : Len(r) = 1} \cup { << "all", "zz" >>, << "a", "a" >> },
   device_type : {"linux", "bogus"},
   cmds : { << "" >>, << "show version" >>, << "", "show version" >> },
   prompt_patterns : { << "" >> }, output_regex : RegexStrings \ {"link"}]
  \cup
  [via : {"web"}, fileOk : {FALSE}, machines : { << >> },
   groups : { << "all" >>, << "zz" >> }, device_type : {"linux", "bogus"},
   cmds : { << "" >> }, prompt_patterns : { << "" >> },
   output_regex : {"", "("}]

Init ==
  /\ args \in EnumArgs \cup DeviceArgs \cup WebArgs
  /\ pc = "init"
  /\ error = ""
  /\ cache = << >>
  /\ groups = << >>
  /\ rerun_groups = << >>
  /\ output_regex = NoPattern
  /\ work = << >>
  /\ i = 0
  /\ device = NoDevice
  /\ log = << >>
  /\ session = "none"
  /\ sent = << >>
  /\ raw = << >>
  /\ exc = NoExc
  /\ calls = << >>
  /\ result = NoResult
  /\ envelope = NoEnvelope
  /\ emitted = << >>
  /\ contacted = FALSE
  /\ results = << >>
  /\ df = NoFrame
  /\ df_clean = NoFrame
  /\ output_file = NoFile
  /\ stop = {}
  /\ event = FALSE
  /\ disconnected = FALSE
  /\ events = << >>
  /\ last_event = NoEvent
  /\ now = 0
  /\ registered = << >>
  /\ response = NoResponse
  /\ streams = << >>
  /\ requested = FALSE
  /\ gens = [id \in StreamIds |-> NoGen]

(***************************************************************************)
(* The web transport: execute and stream                                   *)
(***************************************************************************)
Reject(e) ==
  /\ pc' = "rejected"
  /\ error' = e

\* Line 128, `cache[id] = web_query(...)`, under the id made at line 96.
Register ==
  /\ cache' = setitem(cache, Id(Len(registered) + 1), now)
  /\ registered' = Append(registered, [key |-> Id(Len(registered) + 1), at |-> now])

\* server.execute: the four validations in the order of the code, then the
\* registration of the stream.
Execute ==
  /\ pc = "init"
  /\ args.via = "web"
  /\ IF ~args.fileOk
     THEN /\ Reject("400 Invalid machines file")
          /\ UNCHANGED << cache, registered, groups, rerun_groups, output_regex >>
     ELSE \E v \in validate_groups(args.machines, args.groups),
             v2 \in validate_groups(args.machines, args.groups) :
          IF v.raised # None
          THEN /\ Reject("400 KeyError")
               /\ UNCHANGED << cache, registered, groups, rerun_groups, output_regex >>
          ELSE /\ groups' = v.value
               /\ rerun_groups' = v2.value
               /\ IF validate_device_type(args.device_type).raised # None
                  THEN /\ Reject("400 ValueError")
                       /\ UNCHANGED << cache, registered, output_regex >>
                  ELSE IF parse_regex(args.output_regex).raised # None
                       THEN /\ Reject("400 Invalid output regex")
                            /\ UNCHANGED << cache, registered, output_regex >>
                       ELSE /\ output_regex' = parse_regex(args.output_regex).value
                            /\ Register
                            /\ pc' = "registered"
                            /\ UNCHANGED error
  /\ UNCHANGED << args, work, i, deviceVars, outVars, contacted >>
  /\ UNCHANGED << cliVars, webVars, now, response, streams >>
  /\ UNCHANGED << requested, gens >>

\* server.stream (lines 133-138): cache.pop(id) gives the generator function
\* of a key the cache holds, and the generator made from it is returned in
\* an EventSourceResponse; pop raises KeyError for any other key, and an
\* HTTPException is returned.
stream(id) ==
  IF contains(cache, id, now)
  THEN /\ cache' = delitem(cache, id)
       /\ streams' = Append(streams, id)
       /\ response' = [id |-> id, raised |-> None, value |-> "EventSourceResponse"]
  ELSE /\ response' = [id |-> id, raised |-> None,
                       value |-> "HTTPException(404, Not found)"]
       /\ UNCHANGED << cache, streams >>

\* The stream of the registered request is asked for, and its generator
\* starts: it registers a new Event (line 46) and builds the work list.
Stream ==
  /\ pc = "registered"
  /\ contains(cache, StreamId, now)
  /\ stream(StreamId)
  /\ stop' = stop \cup {StreamId}
  /\ event' = FALSE
  /\ work' = Work(args.machines, groups)
  /\ pc' = "next"
  /\ UNCHANGED << args, error, groups, rerun_groups, output_regex, i,
                  deviceVars, outVars, contacted >>
  /\ UNCHANGED << cliVars, disconnected, events, last_event, now, registered >>
  /\ requested' = TRUE
  /\ UNCHANGED gens

\* A caller that validates the groups with validate_groups and iterates
\* query_machines itself.
CallQueryMachines ==
  /\ pc = "init"
  /\ args.via = "api"
  /\ \E v \in validate_groups(args.machines, args.groups),
        v2 \in validate_groups(args.machines, args.groups) :
       IF v.raised # None
       THEN /\ Reject(v.raised)
            /\ UNCHANGED << groups, rerun_groups, output_regex, work >>
       ELSE /\ groups' = v.value
            /\ rerun_groups' = v2.value
            /\ output_regex' = parse_regex(args.output_regex).value
            /\ work' = Work(args.machines, v.value)
            /\ pc' = "next"
            /\ UNCHANGED error
  /\ UNCHANGED << args, cache, i, deviceVars, outVars, contacted >>
  /\ UNCHANGED << cliVars, webVars, storeVars >>
  /\ requested' = (pc' = "next")
  /\ UNCHANGED gens

(***************************************************************************)
(* core.query_machines: the handling of one device                         *)
(***************************************************************************)
\* Lines 41-62: the next work item, a fresh transcript, the merged parameters.
BeginDevice ==
  /\ pc = "next"
  /\ i < Len(work)
  /\ i' = i + 1
  /\ device' = Merge(args.device_type, work[i + 1].machine)
  /\ log' = Fresh(log)
  /\ session' = "none"
  /\ sent' = << >>
  /\ raw' = << >>
  /\ exc' = NoExc
  /\ calls' = << >>
  /\ result' = NoResult
  /\ pc' = IF Merge(args.device_type, work[i + 1].machine).device_type = "autodetect"
           THEN "detect" ELSE "open"
  /\ UNCHANGED << args, error, cache, groups, rerun_groups, output_regex, work,
                  outVars, contacted >>
  /\ UNCHANGED << cliVars, webVars, storeVars >>
  /\ UNCHANGED << requested, gens >>

\* What SSHDetect(**device).autodetect() does: it returns a type, returns
\* None, or raises.
DetectBehaviours ==
  {[raises |-> None, type |-> t] : t \in {"linux", None}}
  \cup {[raises |-> e, type |-> None] : e \in NetmikoRaises}

\* Lines 65-66.  netmiko raises ValueError for parameters without a host.
Autodetect ==
  /\ pc = "detect"
  /\ IF device.host = Absent
     THEN /\ calls' = Append(calls, Call("SSHDetect", device, None))
          /\ exc' = [class |-> "ValueError", at |-> "autodetect"]
          /\ pc' = "except"
          /\ UNCHANGED << device, log, contacted >>
     ELSE \E b \in DetectBehaviours :
          /\ calls' = Append(calls, Call("SSHDetect", device, b.type))
          /\ contacted' = TRUE
          /\ log' = Write(device, log, Chunk(i, TRUE))
          /\ IF b.raises # None
             THEN /\ exc' = [class |-> b.raises, at |-> "autodetect"]
                  /\ pc' = "except"
                  /\ UNCHANGED device
             ELSE /\ device' = [device EXCEPT !.device_type = b.type]
                  /\ pc' = "open"
                  /\ UNCHANGED exc
  /\ UNCHANGED << args, error, cache, groups, rerun_groups, output_regex, work,
                  i, session, sent, raw, result, outVars >>
  /\ UNCHANGED << cliVars, webVars, storeVars >>
  /\ UNCHANGED << requested, gens >>

\* What ConnectHandler(**device) does: it opens the session or raises.
OpenBehaviours == {None} \cup NetmikoRaises

\* Line 69: `not device["device_type"]`, true of None and of "".
UnknownType_empty(dev) == dev.device_type = ""

UnknownType(dev) == dev.device_type \in {None, ""}

\* Lines 68-73: no device type is UnknownDeviceType without a session;
\* otherwise the session is opened.
OpenSession ==
  /\ pc = "open"
  /\ IF UnknownType(device)
     THEN /\ result' = Exc("NetqueryUnknownDeviceTypeException", << >>)
          /\ pc' = "yield"
          /\ UNCHANGED << session, exc, calls, log, contacted >>
     ELSE /\ calls' = Append(calls, Call("ConnectHandler", device, None))
          /\ IF device.host = Absent
             THEN /\ exc' = [class |-> "ValueError", at |-> "open"]
                  /\ pc' = "except"
                  /\ UNCHANGED << session, result, log, contacted >>
             ELSE \E b \in OpenBehaviours :
                  /\ contacted' = TRUE
                  /\ log' = Write(device, log, Chunk(i, TRUE))
                  /\ IF b # None
                     THEN /\ exc' = [class |-> b, at |-> "open"]
                          /\ pc' = "except"
                          /\ UNCHANGED session
                     ELSE /\ session' = "open"
                          /\ pc' = "dispatch"
                          /\ UNCHANGED exc
                  /\ UNCHANGED result
  /\ UNCHANGED << args, error, cache, groups, rerun_groups, output_regex, work,
                  i, device, sent, raw, outVars >>
  /\ UNCHANGED << cliVars, webVars, storeVars >>
  /\ UNCHANGED << requested, gens >>

\* What a send_command / send_multiline call does: it returns the text the
\* device printed, or raises.
SendBehaviours ==
  {[raises |-> None, text |-> t] : t \in Texts}
  \cup {[raises |-> e, text |-> << >>] : e \in NetmikoRaises}

\* Lines 80-92: the single command and its expect_string.
SendCommand(cmds, prompt_patterns) ==
  [fn |-> "send_command",
   items |-> << << cmds[1],
                   IF prompt_patterns[1] # "" THEN prompt_patterns[1] ELSE None >> >>]

\* Lines 95-111: the (command, pattern) pairs, or the bare commands.
SendMultiline(cmds, prompt_patterns) ==
  [fn |-> "send_multiline",
   items |-> IF Len(prompt_patterns) = Len(cmds)
             THEN [k \in 1..Len(cmds) |-> << cmds[k], prompt_patterns[k] >>]
             ELSE [k \in 1..Len(cmds) |-> << cmds[k], None >>]]

\* Lines 75-76: `len(cmds[0]) == 0`, evaluated on a non-empty list.
ProbeMode(cmds) == cmds[1] = ""

\* Lines 117-124: the output filter.
FilterOutput(pattern, text) ==
  IF pattern.set
  THEN IF search(pattern, text).found
       THEN Str(search(pattern, text).group)
       ELSE Exc("NetqueryNoMatchesException", text)
  ELSE Str(text)

\* A faulty variant: the marker of the probe goes through the output filter.
Probe_filtered == FilterOutput(output_regex, Accessible.value)

\* Lines 75-76: the outcome of a probe is the marker as it stands; the
\* post-processing of lines 113-124 is in the other branch.
Probe == Accessible

\* Lines 75-124, inside the session: the probe, or the dispatch of the
\* commands and the post-processing of what they returned.  cmds[0] and
\* prompt_patterns[0] raise IndexError on an empty list.
Dispatch ==
  /\ pc = "dispatch"
  /\ IF Len(args.cmds) = 0
     THEN /\ exc' = [class |-> "IndexError", at |-> "dispatch"]
          /\ UNCHANGED << sent, raw, result, log >>
     ELSE IF ProbeMode(args.cmds)
     THEN /\ result' = Probe
          /\ UNCHANGED << sent, raw, exc, log >>
     ELSE IF Len(args.cmds) = 1 /\ Len(args.prompt_patterns) = 0
     THEN /\ exc' = [class |-> "IndexError", at |-> "dispatch"]
          /\ UNCHANGED << sent, raw, result, log >>
     ELSE \E b \in SendBehaviours, utf8 \in BOOLEAN :
          /\ sent' = Append(sent, IF Len(args.cmds) = 1
                                  THEN SendCommand(args.cmds, args.prompt_patterns)
                                  ELSE SendMultiline(args.cmds, args.prompt_patterns))
          /\ log' = Write(device, log, Chunk(i, utf8))
          /\ IF b.raises # None
             THEN /\ exc' = [class |-> b.raises, at |-> "dispatch"]
                  /\ UNCHANGED << raw, result >>
             ELSE /\ raw' = b.text
                  /\ result' = FilterOutput(output_regex, b.text)
                  /\ UNCHANGED exc
  /\ pc' = "close"
  /\ UNCHANGED << args, error, cache, groups, rerun_groups, output_regex, work,
                  i, device, session, calls, outVars, contacted >>
  /\ UNCHANGED << cliVars, webVars, storeVars >>
  /\ UNCHANGED << requested, gens >>

\* A faulty variant: a disconnect at the end of the block instead of `with`,
\* skipped when the block raises.
CloseSession_unscoped ==
  /\ pc = "close"
  /\ session' = IF exc.class # None THEN session ELSE "closed"
  /\ pc' = IF exc.class # None THEN "except" ELSE "yield"
  /\ UNCHANGED << args, error, cache, groups, rerun_groups, output_regex, work,
                  i, device, log, sent, raw, exc, calls, result, outVars,
                  contacted >>
  /\ UNCHANGED << cliVars, webVars, storeVars >>
  /\ UNCHANGED << requested, gens >>

\* Line 73: the exit of `with ConnectHandler(...)`, on the normal and on the
\* exceptional path.
CloseSession ==
  /\ pc = "close"
  /\ session' = "closed"
  /\ pc' = IF exc.class # None THEN "except" ELSE "yield"
  /\ UNCHANGED << args, error, cache, groups, rerun_groups, output_regex, work,
                  i, device, log, sent, raw, exc, calls, result, outVars,
                  contacted >>
  /\ UNCHANGED << cliVars, webVars, storeVars >>
  /\ UNCHANGED << requested, gens >>

\* The handlers with a second session-open attempt after a failed one.
HandleException_retrying ==
  /\ pc = "except"
  /\ IF exc.at = "open" /\ Len(calls) < 3
     THEN /\ pc' = "open"
          /\ exc' = NoExc
          /\ UNCHANGED result
     ELSE /\ result' = Except(exc.class)
          /\ pc' = "yield"
          /\ UNCHANGED exc
  /\ UNCHANGED << args, error, cache, groups, rerun_groups, output_regex, work,
                  i, device, log, session, sent, raw, calls, outVars,
                  contacted >>
  /\ UNCHANGED << cliVars, webVars, storeVars >>
  /\ UNCHANGED << requested, gens >>

\* Lines 126-131.
HandleException ==
  /\ pc = "except"
  /\ result' = Except(exc.class)
  /\ pc' = "yield"
  /\ UNCHANGED << args, error, cache, groups, rerun_groups, output_regex, work,
                  i, device, log, session, sent, raw, exc, calls, outVars,
                  contacted >>
  /\ UNCHANGED << cliVars, webVars, storeVars >>
  /\ UNCHANGED << requested, gens >>

\* What utils.get_hostname (socket.getnameinfo) does: the PTR name, the
\* numeric address when there is none, or socket.gaierror.
DnsBehaviours == {"name", "numeric", "gaierror"}

Crash(e) ==
  /\ pc' = "crashed"
  /\ error' = e
  /\ UNCHANGED outVars

\* A faulty variant: the devices are counted from 0.
Progress_zero_based(k, w) == << k - 1, Len(w) >>

\* Lines 41 and 142: `i / len(work)` with i counted from 1, kept as the
\* pair of the two integers.
Progress(k, w) == << k, Len(w) >>

\* A generator that does not wait for its consumer: after an envelope it
\* goes on with the next device at once.
YieldEnvelope_pushing ==
  /\ pc = "yield"
  /\ device.host # Absent
  /\ envelope' =
       [filename |-> work[i].filename, group |-> work[i].group,
        label |-> work[i].label, hostname |-> device.host,
        ip |-> device.host, device_type |-> device.device_type,
        result |-> result, log |-> log, progress |-> Progress(i, work)]
  /\ emitted' = Append(emitted,
       [filename |-> work[i].filename, group |-> work[i].group,
        label |-> work[i].label, progress |-> Progress(i, work)])
  /\ pc' = IF args.via = "web" THEN "forward" ELSE "next"
  /\ requested' = (args.via = "web")
  /\ UNCHANGED << args, error, cache, groups, rerun_groups, output_regex, work,
                  i, deviceVars, contacted >>
  /\ UNCHANGED << cliVars, webVars, storeVars >>
  /\ UNCHANGED gens

\* Lines 133-143: the envelope is built outside the try block, its values in
\* the order of the dict display, and handed to the consumer.
YieldEnvelope ==
  /\ pc = "yield"
  /\ IF device.host = Absent
     THEN Crash("KeyError")
     ELSE \E dns \in DnsBehaviours :
          IF dns = "gaierror"
          THEN Crash("gaierror")
          ELSE IF \E k \in DOMAIN log : ~log[k].utf8
          THEN Crash("UnicodeDecodeError")
          ELSE /\ envelope' =
                    [filename |-> work[i].filename, group |-> work[i].group,
                     label |-> work[i].label,
                     hostname |-> IF dns = "name" THEN "r.example.net"
                                  ELSE device.host,
                     ip |-> device.host, device_type |-> device.device_type,
                     result |-> result, log |-> log,
                     progress |-> Progress(i, work)]
               /\ emitted' = Append(emitted,
                    [filename |-> work[i].filename, group |-> work[i].group,
                     label |-> work[i].label, progress |-> Progress(i, work)])
               /\ pc' = IF args.via = "web" THEN "forward" ELSE "suspended"
               /\ UNCHANGED error
  /\ UNCHANGED << args, cache, groups, rerun_groups, output_regex, work, i,
                  deviceVars, contacted >>
  /\ UNCHANGED << cliVars, webVars, storeVars >>
  /\ requested' = (pc' = "forward")
  /\ UNCHANGED gens

\* Line 41: the work list is exhausted.
Finish ==
  /\ pc = "next"
  /\ i = Len(work)
  /\ pc' = IF args.via = "web" THEN "finishing" ELSE "done"
  /\ UNCHANGED << args, error, cache, groups, rerun_groups, output_regex, work,
                  i, deviceVars, outVars, contacted >>
  /\ UNCHANGED << cliVars, webVars, storeVars >>
  /\ requested' = (pc' = "finishing")
  /\ UNCHANGED gens

(***************************************************************************)
(* server.web_query: the stream of events                                  *)
(***************************************************************************)
\* str(row["result"]) (exceptions.py 1-21): every Netquery exception prints
\* as "exception"; another exception prints its own message.
str(res) ==
  IF res.class \in {"NetqueryTimeoutException", "NetqueryUnknownDeviceTypeException",
                    "NetqueryUnauthorizedException", "NetqueryNoMatchesException"}
  THEN << "exception" >>
  ELSE << "message of", res.class >>

\* Lines 52-55: the row that json.dumps serialises: the result as text, the
\* other keys as they are.
Row(env) ==
  [env EXCEPT !.result = IF env.result.type = "exc" THEN str(env.result)
                         ELSE env.result.value]

\* utils_new.gen_default_filename: a name made of the commands and of a UTC
\* timestamp.
gen_default_filename(cmds) == << "results of", cmds, "at", "UTC timestamp" >>

\* The loop body with the test after the yield: the row in hand is sent
\* before the wrapper leaves the loop.
Forward_before_test ==
  /\ pc = "forward"
  /\ events' = Append(events, [event |-> "message",
                                progress |-> envelope.progress])
  /\ last_event' = ServerSentEvent("message", Row(envelope))
  /\ pc' = IF disconnected \/ event THEN "finishing" ELSE "suspended"
  /\ requested' = (pc' = "finishing")
  /\ UNCHANGED << args, error, cache, groups, rerun_groups, output_regex, work,
                  i, deviceVars, outVars, contacted, cliVars, stop, event,
                  disconnected >>
  /\ UNCHANGED << storeVars, gens >>

\* Lines 48-55, for the row that async_gen has just delivered: the wrapper
\* leaves the loop when the client is gone or the Event is set, and sends
\* the row otherwise.
Forward ==
  /\ pc = "forward"
  /\ IF disconnected \/ event
     THEN /\ pc' = "finishing"
          /\ UNCHANGED << events, last_event >>
     ELSE /\ events' = Append(events, [event |-> "message",
                                         progress |-> envelope.progress])
          /\ last_event' = ServerSentEvent("message", Row(envelope))
          /\ pc' = "suspended"
  /\ requested' = (pc' = "finishing")
  /\ UNCHANGED << args, error, cache, groups, rerun_groups, output_regex, work,
                  i, deviceVars, outVars, contacted, cliVars, stop, event,
                  disconnected >>
  /\ UNCHANGED storeVars
  /\ UNCHANGED gens

\* Lines 57-60: the terminal event is yielded.
Finished ==
  /\ pc = "finishing"
  /\ events' = Append(events, [event |-> "finished", progress |-> << 0, 0 >>])
  /\ last_event' = ServerSentEvent("finished", gen_default_filename(args.cmds))
  /\ pc' = "suspended"
  /\ requested' = FALSE
  /\ UNCHANGED << args, error, cache, groups, rerun_groups, output_regex, work,
                  i, deviceVars, outVars, contacted, cliVars, stop, event,
                  disconnected >>
  /\ UNCHANGED storeVars
  /\ UNCHANGED gens

\* The consumer asks the generator it iterates for the next item: next() on
\* query_machines, or the transport's __anext__ on the stream.  A stream
\* suspended at its terminal event runs stop.pop(id, None) (line 62) and
\* ends; any other generator goes on with its loop.
Request ==
  /\ pc = "suspended"
  /\ IF args.via = "web" /\ last_event.event = "finished"
     THEN /\ stop' = stop \ {StreamId}
          /\ pc' = "done"
          /\ UNCHANGED << requested, gens >>
     ELSE /\ pc' = "next"
          /\ requested' = TRUE
          /\ UNCHANGED stop
  /\ UNCHANGED << args, error, cache, groups, rerun_groups, output_regex, work,
                  i, deviceVars, outVars, contacted, cliVars, event,
                  disconnected, events, last_event >>
  /\ UNCHANGED storeVars
  /\ UNCHANGED gens

\* The consumer closes the generator it iterates while the generator is
\* suspended at a yield (close() / aclose(), or the transport cancelling the
\* stream's task): the generator is left at that yield, and no line after
\* it runs.
Close ==
  /\ pc = "suspended"
  /\ pc' = "closed"
  /\ UNCHANGED << args, error, cache, groups, rerun_groups, output_regex, work,
                  i, deviceVars, outVars, contacted, cliVars, webVars >>
  /\ UNCHANGED << storeVars, requested, gens >>

\* A faulty variant: the cancellation interrupts the generator where it
\* stands, and the stream goes to its terminal event at once.
StopStream_interrupting ==
  /\ args.via = "web"
  /\ StreamId \in stop
  /\ ~event
  /\ event' = TRUE
  /\ pc' = "finishing"
  /\ UNCHANGED << args, error, cache, groups, rerun_groups, output_regex,
                  work, i, deviceVars, outVars, contacted, cliVars, stop,
                  disconnected, events, last_event >>
  /\ UNCHANGED storeVars
  /\ UNCHANGED << requested, gens >>

\* server.stopStream (lines 141-146), at any moment: it sets the Event
\* registered for the id, if there is one.
StopStream ==
  /\ args.via = "web"
  /\ StreamId \in stop
  /\ ~event
  /\ event' = TRUE
  /\ UNCHANGED << args, pc, error, cache, groups, rerun_groups, output_regex,
                  work, i, deviceVars, outVars, contacted, cliVars, stop,
                  disconnected, events, last_event >>
  /\ UNCHANGED storeVars
  /\ UNCHANGED << requested, gens >>

\* The client of the stream goes away while the generator runs.
Disconnect ==
  /\ args.via = "web"
  /\ StreamId \in stop
  /\ ~disconnected
  /\ disconnected' = TRUE
  /\ UNCHANGED << args, pc, error, cache, groups, rerun_groups, output_regex,
                  work, i, deviceVars, outVars, contacted, cliVars, stop, event,
                  events, last_event >>
  /\ UNCHANGED storeVars
  /\ UNCHANGED << requested, gens >>

Next ==
  \/ Execute
  \/ Stream
  \/ CallQueryMachines
  \/ BeginDevice
  \/ Autodetect
  \/ OpenSession
  \/ Dispatch
  \/ CloseSession
  \/ HandleException
  \/ YieldEnvelope
  \/ Finish
  \/ Forward
  \/ Finished
  \/ Request
  \/ Close
  \/ StopStream
  \/ Disconnect

Spec == Init /\ [][Next]_vars

(***************************************************************************)
(* main.query: the table of results                                        *)
(***************************************************************************)
\* The result labels of main.query.  Each stands for the literal of the
\* source, which begins with a non-ASCII glyph.
CliLabels == {"Timeout", "Accessible", "Unknown", "Unauthorized", "Exception"}

\* The cell values of the model in ascending order of str.__lt__ (code
\* points): the ASCII strings, then the five labels in the order of the
\* glyphs of their literals; pandas sorts None after every string.
Alphabet ==
  << "", "10.0.0.1", "10.0.0.2", "10.0.1.3", "ERROR link down", "IOS 15.2",
     "OK: link up", "a", "autodetect", "b", "core", "f1", "f2", "linux", "r.example.net", "r1", "r2",
     "r3", "Timeout", "Accessible", "Unknown", "Unauthorized", "Exception",
     None >>

Ord(v) == CHOOSE k \in DOMAIN Alphabet : Alphabet[k] = v

\* Lines 291-300 and 302-306: the columns of the DataFrame and the order
\* they are put in after the sort.
Columns ==
  << "File", "Group", "Label", "Hostname", "IP", "Device Type", "Result", "Log" >>
Reordered ==
  << "Result", "File", "Group", "Label", "Hostname", "IP", "Device Type", "Log" >>

\* A faulty variant: the rows are sorted by their result only.
SortKey_result_only == << "Result" >>

\* Line 302: the `by` of sort_values.
SortKey ==
  << "Result", "File", "Group", "Label", "Hostname", "IP", "Device Type" >>

\* DataFrame(results, columns=...): a RangeIndex and one cell per column.
DataFrame(rows, columns) ==
  [columns |-> columns,
   data |-> [k \in DOMAIN rows |->
               [index |-> k - 1,
                cell |-> [c \in {columns[n] : n \in DOMAIN columns} |->
                            rows[k][CHOOSE n \in DOMAIN columns : columns[n] = c]]]]]

\* The order of sort_values on the key columns `by`, from position n on.
RECURSIVE KeyLess(_, _, _, _)
KeyLess(a, b, by, n) ==
  IF n > Len(by) THEN FALSE
  ELSE IF Ord(a.cell[by[n]]) # Ord(b.cell[by[n]])
       THEN Ord(a.cell[by[n]]) < Ord(b.cell[by[n]])
       ELSE KeyLess(a, b, by, n + 1)

\* A stable insertion: after every row that is not greater.
RECURSIVE Insert(_, _, _)
Insert(sorted, row, by) ==
  IF sorted = << >> THEN << row >>
  ELSE IF KeyLess(row, Head(sorted), by, 1) THEN << row >> \o sorted
  ELSE << Head(sorted) >> \o Insert(Tail(sorted), row, by)

RECURSIVE SortRows(_, _)
SortRows(data, by) ==
  IF data = << >> THEN << >>
  ELSE Insert(SortRows(SubSeq(data, 1, Len(data) - 1), by), data[Len(data)], by)

\* DataFrame.sort_values(by): a stable lexicographic sort; the rows keep
\* their index labels.
sort_values(frame, by) == [frame EXCEPT !.data = SortRows(frame.data, by)]

\* frame[columns]: the selection of columns, in the given order.
Select(frame, columns) ==
  [columns |-> columns,
   data |-> [k \in DOMAIN frame.data |->
               [index |-> frame.data[k].index,
                cell |-> [c \in {columns[n] : n \in DOMAIN columns} |->
                            frame.data[k].cell[c]]]]]

\* frame.drop(column, axis="columns")
drop(frame, column) ==
  Select(frame, SelectSeq(frame.columns, LAMBDA c : c # column))

\* Lines 310-316: the cell that replaces a repeated value.
Placeholder == "''"

\* series.duplicated() within the groups of groupby(by): an earlier row of
\* the frame has the same values in the columns `by` and in the column.
Duplicated(frame, by, column, k) ==
  \E j \in 1..(k - 1) :
    \A c \in by \cup {column} : frame.data[j].cell[c] = frame.data[k].cell[c]

\* clean[column] = frame.groupby(by)[column].transform(mask duplicated)
MaskColumn(clean, frame, by, column) ==
  [clean EXCEPT !.data =
     [k \in DOMAIN clean.data |->
        [clean.data[k] EXCEPT !.cell[column] =
           IF Duplicated(frame, by, column, k) THEN Placeholder
           ELSE frame.data[k].cell[column]]]]

\* A faulty variant: File and Group masked without the groupby.
Clean_ungrouped(frame) ==
  MaskColumn(MaskColumn(MaskColumn(frame, frame, {}, "Result"),
                        frame, {}, "File"),
             frame, {}, "Group")

\* Lines 309-316: df_clean, from a copy of df.
Clean(frame) ==
  MaskColumn(MaskColumn(MaskColumn(frame, frame, {}, "Result"),
                        frame, {"Result"}, "File"),
             frame, {"Result", "File"}, "Group")

\* A faulty variant: the File column always shown.
DropColumns_keep_file(clean, machines, gs) ==
  IF Len(gs) = 1 THEN drop(drop(clean, "Log"), "Group") ELSE drop(clean, "Log")

\* Lines 318-322.
DropColumns(clean, machines, gs) ==
  LET a == drop(clean, "Log")
      b == IF Len(machines) = 1 THEN drop(a, "File") ELSE a
  IN IF Len(gs) = 1 THEN drop(b, "Group") ELSE b

\* Lines 325-336: tabulate(values, columns, showindex=True) shows the
\* position of each row, then its cells.
Display(clean) ==
  [headers |-> clean.columns,
   rows |-> [k \in DOMAIN clean.data |->
               << k - 1 >> \o [n \in DOMAIN clean.columns |->
                                 clean.data[k].cell[clean.columns[n]]]]]

\* Lines 289-336 on a list of results: the sorted frame and the table shown.
Sorted(rows) == Select(sort_values(DataFrame(rows, Columns), SortKey), Reordered)
Shown(rows, machines, gs) == Display(DropColumns(Clean(Sorted(rows)), machines, gs))

\* A faulty variant: the table on display is the one written.
ExportFrame_clean(frame, clean) == clean

\* Lines 347-361: every format writes df.
ExportFrame(frame, clean) == frame

\* A faulty variant: a path with another suffix is written as CSV.
Writer_csv_default(suffix) ==
  IF suffix = ".html" THEN "to_html"
  ELSE IF suffix = ".json" THEN "to_json"
  ELSE IF suffix = ".txt" THEN "to_string"
  ELSE "to_csv"

\* Lines 357-360: what the default case of the match prints.
Warning(suffix) ==
  IF suffix \in {".html", ".csv", ".json", ".txt"} THEN None
  ELSE "Unknown extension, outputted in TXT format."

\* Lines 349-361: the writer chosen by the suffix of the output path.
Writer(suffix) ==
  IF suffix = ".html" THEN "to_html"
  ELSE IF suffix = ".csv" THEN "to_csv"
  ELSE IF suffix = ".json" THEN "to_json"
  ELSE "to_string"

(***************************************************************************)
(* main.query: the command                                                 *)
(***************************************************************************)
\* The inventory of the example of the specification: one source, one
\* group, the devices r1 and r2.
ExampleInventory ==
  << File("f1", << Grp("core", << Dev("r1", Plain("10.0.0.1")),
                                  Dev("r2", Plain("10.0.0.2")) >>) >>) >>

\* Inventories of the command line: one source with one group, two sources
\* that share a group, and the inventory of the example.
CliInventories ==
  { ExampleInventory,
    << File("f1", << Grp("a", << Dev("r2", Plain("10.0.0.2")),
                                 Dev("r1", Plain("10.0.0.1")) >>) >>) >>,
    << File("f2", << Grp("b", << Dev("r1", Plain("10.0.0.1")) >>),
                     Grp("a", << Dev("r1", Plain("10.0.0.1")) >>) >>),
       File("f1", << Grp("a", << Dev("r3", Plain("10.0.1.3")) >>) >>) >> }

\* The options of the command: --groups as typed, --device-type, --cmds.
CliArgs ==
  [via : {"cli"}, fileOk : {TRUE}, machines : CliInventories,
   groups : { << "a" >>, << "all" >>, << "a", "b" >>, << "b", "a" >>,
              << "b", "b" >>, << "zz" >>, << "core" >> },
   device_type : {"autodetect", "linux", "bogus"},
   cmds : { << "" >>, << "show version" >> },
   prompt_patterns : { << "" >> }, output_regex : {""}]

\* --output: disabled, left out (the command then asks), or a path.
Outputs == {"False", None, "out.html", "out.csv", "out.json", "out.txt", "out.xml"}
\* What the user answers to the prompt of line 341.
Answers == {"default.csv", "x.json", "False"}
\* Path.suffix
Suffix(path) ==
  IF path \in {"out.html"} THEN ".html"
  ELSE IF path \in {"out.csv", "default.csv"} THEN ".csv"
  ELSE IF path \in {"out.json", "x.json"} THEN ".json"
  ELSE IF path \in {"out.txt"} THEN ".txt"
  ELSE ".xml"

InitCli ==
  /\ args \in CliArgs
  /\ pc = "init"
  /\ error = ""
  /\ cache = << >>
  /\ groups = << >>
  /\ rerun_groups = << >>
  /\ output_regex = NoPattern
  /\ work = << >>
  /\ i = 0
  /\ device = NoDevice
  /\ log = << >>
  /\ session = "none"
  /\ sent = << >>
  /\ raw = << >>
  /\ exc = NoExc
  /\ calls = << >>
  /\ result = NoResult
  /\ envelope = NoEnvelope
  /\ emitted = << >>
  /\ contacted = FALSE
  /\ results = << >>
  /\ df = NoFrame
  /\ df_clean = NoFrame
  /\ output_file = NoFile
  /\ stop = {}
  /\ event = FALSE
  /\ disconnected = FALSE
  /\ events = << >>
  /\ last_event = NoEvent
  /\ now = 0
  /\ registered = << >>
  /\ response = NoResponse
  /\ streams = << >>
  /\ requested = FALSE
  /\ gens = [id \in StreamIds |-> NoGen]

\* The callbacks of the options (main.py 69-87): validate_device_type, then
\* validate_groups; a refusal ends the command with UsageError.  The work
\* list is the order of the nested loops of lines 160-168.
CliValidate ==
  /\ pc = "init"
  /\ args.via = "cli"
  /\ IF utils_validate_device_type(args.device_type).raised # None
     THEN /\ Reject(utils_validate_device_type(args.device_type).raised)
          /\ UNCHANGED << groups, rerun_groups, work >>
     ELSE \E v \in validate_groups(args.machines, args.groups) :
          IF v.raised # None
          THEN /\ Reject("UsageError")
               /\ UNCHANGED << groups, rerun_groups, work >>
          ELSE /\ groups' = v.value
               /\ rerun_groups' = v.value
               /\ work' = Work(args.machines, v.value)
               /\ pc' = "query"
               /\ UNCHANGED error
  /\ UNCHANGED << args, cache, output_regex, i, deviceVars, outVars, contacted,
                  cliVars, webVars, storeVars >>
  /\ UNCHANGED << requested, gens >>

\* The result label of an exception (lines 256-269).
CliExcept(class) ==
  IF class = "NetmikoAuthenticationException" THEN "Unauthorized"
  ELSE IF class = "NetmikoTimeoutException" THEN "Timeout"
  ELSE "Exception"

Outcome(device_type, res, transcript) ==
  [device_type |-> device_type, result |-> res, log |-> transcript]

\* Lines 196-253: what the block of an opened session gives.  An exception
\* may be raised before any byte of the transcript is written.
CliConnected(dev, cmds) ==
  {Outcome(dev.device_type, CliExcept(e), "transcript") : e \in NetmikoRaises}
  \cup {Outcome(dev.device_type, "Exception", "")}
  \cup (IF Len(cmds) = 1 /\ cmds[1] = ""
        THEN {Outcome(dev.device_type, "Accessible", "transcript")}
        ELSE {Outcome(dev.device_type, t, "transcript") :
                t \in {"OK: link up", "ERROR link down", "IOS 15.2"}})

\* Lines 182-269: the device type, the result and the transcript that the
\* handling of a device can end with.
CliOutcomes(dev, cmds) ==
  IF dev.device_type = "autodetect"
  THEN {Outcome("autodetect", CliExcept(e), "transcript") : e \in NetmikoRaises}
       \cup {Outcome(None, "Unknown", "transcript")}
       \cup CliConnected([dev EXCEPT !.device_type = "linux"], cmds)
  ELSE IF UnknownType(dev) THEN {Outcome(dev.device_type, "Unknown", "")}
  ELSE CliConnected(dev, cmds)

\* Lines 160-287: one device of the nested loops, from the merge of its
\* parameters to the row appended to results.  get_hostname is called
\* outside the try block.
CliQueryDevice ==
  /\ pc = "query"
  /\ i < Len(work)
  /\ i' = i + 1
  /\ device' = Merge(args.device_type, work[i + 1].machine)
  /\ \E dns \in DnsBehaviours :
       IF dns = "gaierror"
       THEN /\ pc' = "crashed"
            /\ error' = "gaierror"
            /\ UNCHANGED << results, contacted >>
       ELSE \E o \in CliOutcomes(device', args.cmds) :
            /\ results' = Append(results,
                 << work[i + 1].filename, work[i + 1].group, work[i + 1].label,
                    IF dns = "name" THEN "r.example.net" ELSE device'.host,
                    device'.host, o.device_type, o.result, o.log >>)
            /\ contacted' = (contacted \/ o.log # "")
            /\ UNCHANGED << pc, error >>
  /\ UNCHANGED << args, cache, groups, rerun_groups, output_regex, work, log,
                  session, sent, raw, exc, calls, result, outVars, df, df_clean,
                  output_file, webVars, storeVars >>
  /\ UNCHANGED << requested, gens >>

\* Lines 289-336: the sorted frame, its masked copy without the dropped
\* columns, and the table printed.
CliRender ==
  /\ pc = "query"
  /\ i = Len(work)
  /\ df' = Sorted(results)
  /\ df_clean' = DropColumns(Clean(Sorted(results)), args.machines, groups)
  /\ pc' = "rendered"
  /\ UNCHANGED << args, error, cache, groups, rerun_groups, output_regex, work,
                  i, deviceVars, outVars, contacted, results, output_file,
                  webVars, storeVars >>
  /\ UNCHANGED << requested, gens >>

\* Lines 338-366: the output file.  os.fspath raises TypeError for the False
\* that parse_output returns when the prompt is answered "False".  The
\* value of `output` at line 339 is kept with what was written.
CliExport ==
  /\ pc = "rendered"
  /\ \E output \in Outputs, answer \in Answers :
       IF output = "False"
       THEN /\ pc' = "done"
            /\ output_file' = [NoFile EXCEPT !.output = "False"]
            /\ UNCHANGED error
       ELSE IF output = None /\ answer = "False"
       THEN /\ pc' = "crashed"
            /\ error' = "TypeError"
            /\ UNCHANGED output_file
       ELSE /\ output_file' =
                 [output |-> IF output = None THEN answer ELSE output,
                  writer |-> Writer(Suffix(IF output = None THEN answer ELSE output)),
                  frame |-> ExportFrame(df, df_clean),
                  warning |-> Warning(Suffix(IF output = None THEN answer ELSE output))]
            /\ pc' = "done"
            /\ UNCHANGED error
  /\ UNCHANGED << args, cache, groups, rerun_groups, output_regex, work, i,
                  deviceVars, outVars, contacted, results, df, df_clean,
                  webVars, storeVars >>
  /\ UNCHANGED << requested, gens >>

NextCli ==
  \/ CliValidate
  \/ CliQueryDevice
  \/ CliRender
  \/ CliExport

SpecCli == InitCli /\ [][NextCli]_vars

(***************************************************************************)
(* Properties                                                              *)
(***************************************************************************)
\* The outcome tag of a result (spec 4.4).
Kind(r) ==
  IF r.type = "str"
  THEN IF r = Accessible THEN "ConnectivityOnly" ELSE "Success"
  ELSE IF r.type = "unset" THEN "None"
  ELSE IF r.class = "NetqueryUnauthorizedException" THEN "Unauthorized"
  ELSE IF r.class = "NetqueryTimeoutException" THEN "TimedOut"
  ELSE IF r.class = "NetqueryUnknownDeviceTypeException" THEN "UnknownDeviceType"
  ELSE IF r.class = "NetqueryNoMatchesException" THEN "NoMatches"
  ELSE "OtherFailure"

\* The try block of the device in hand is over and its envelope is due.
Handled == pc = "yield"
\* The envelope of the device in hand was yielded.
Yielded ==
  pc \in {"suspended", "closed", "next", "done", "forward", "finishing"} /\ i > 0
\* validate_groups was called.
Validated == pc # "init" /\ args.fileOk
\* validate_groups raised: KeyError to the caller, or execute's 400 for it.
GroupsRefused == pc = "rejected" /\ error \in {"KeyError", "400 KeyError"}

\* The (source, group, label) triples reachable under a group list.
ReachableTriples(machines, gs) ==
  UNION { UNION { { << machines[f].name, g, GetGroup(machines[f], g).devices[d].label >> :
                      d \in DOMAIN GetGroup(machines[f], g).devices } :
                  g \in {gs[k] : k \in DOMAIN gs} \cap GroupNames(machines[f]) } :
          f \in DOMAIN machines }

\* C1: a completed run emitted exactly one envelope per distinct (source,
\* group, label) triple reachable under the resolved group list: as many
\* envelopes as triples, and no triple twice.
C1_OneEnvelopePerTriple ==
  pc = "done" =>
    /\ Len(emitted) = Cardinality(ReachableTriples(args.machines, groups))
    /\ \A x, y \in DOMAIN emitted :
         x # y => << emitted[x].filename, emitted[x].group, emitted[x].label >>
                  # << emitted[y].filename, emitted[y].group, emitted[y].label >>

\* C2: no exception escapes the handling of a device: the generator never
\* ends with an exception.
C2_NoExceptionEscapes == pc # "crashed"

\* C3: each failure of a device gives its designated outcome and each of
\* these outcomes comes from its failure only: an authentication failure
\* gives Unauthorized, a timeout TimedOut, another exception OtherFailure
\* carrying it, no device type UnknownDeviceType, an unmatched "^ERROR"
\* NoMatches; the envelope carries that result.
C3_DesignatedOutcome ==
  /\ (Handled \/ Yielded) =>
       /\ exc.class = "NetmikoAuthenticationException"
            <=> Kind(result) = "Unauthorized"
       /\ exc.class = "NetmikoTimeoutException" <=> Kind(result) = "TimedOut"
       /\ exc.class \notin {None, "NetmikoAuthenticationException",
                            "NetmikoTimeoutException"}
            <=> Kind(result) = "OtherFailure"
       /\ Kind(result) = "OtherFailure" => result.class = exc.class
       /\ (exc.class = None /\ device.device_type \in {None, ""})
            <=> Kind(result) = "UnknownDeviceType"
       /\ (exc.class = None /\ sent # << >> /\ args.output_regex = "^ERROR"
             /\ Head(raw) # "ERROR")
            <=> Kind(result) = "NoMatches"
  /\ Yielded => envelope.result = result

C3_Witness ==
  /\ Yielded
  /\ i = 2
  /\ exc = [class |-> "NetmikoTimeoutException", at |-> "dispatch"]
  /\ Kind(envelope.result) = "TimedOut"

\* C4: a second run on the same inputs enumerates the same devices in the
\* same order (and so with the same progress fractions).
C4_Deterministic ==
  pc \notin {"init", "rejected"} =>
    Work(args.machines, groups) = Work(args.machines, rerun_groups)

\* The iteration positions (source, position in the group list, label) of
\* the devices to visit, and their lexicographic order.
Positions(machines, gs) ==
  UNION { UNION { { << f, g, d >> :
                      d \in DOMAIN GetGroup(machines[f], gs[g]).devices } :
                  g \in {k \in DOMAIN gs : HasGroup(machines[f], gs[k])} } :
          f \in DOMAIN machines }
LexLess(a, b) ==
  \/ a[1] < b[1]
  \/ a[1] = b[1] /\ a[2] < b[2]
  \/ a[1] = b[1] /\ a[2] = b[2] /\ a[3] < b[3]

\* C5: the k-th envelope is the device at the k-th position in the order
\* source (inventory order), then group (order of the resolved list, groups
\* absent from the source skipped), then label (insertion order).
C5_SourceGroupLabelOrder ==
  \A k \in DOMAIN emitted :
    \E t \in Positions(args.machines, groups) :
      /\ Cardinality({u \in Positions(args.machines, groups) : LexLess(u, t)}) = k - 1
      /\ emitted[k].filename = args.machines[t[1]].name
      /\ emitted[k].group = groups[t[2]]
      /\ emitted[k].label = GetGroup(args.machines[t[1]], groups[t[2]]).devices[t[3]].label

C5_Witness ==
  /\ pc = "done"
  /\ args.groups = << "b", "a" >>
  /\ Len(emitted) = 4
  /\ emitted[1].filename = "f2" /\ emitted[1].group = "a"
  /\ emitted[3].filename = "f1" /\ emitted[3].group = "b"
  /\ emitted[4].filename = "f1" /\ emitted[4].group = "a"

\* C6: a requested name (other than the selector) that no source holds makes
\* validate_groups fail, wherever it stands in the list.
C6_AbsentGroupFails ==
  (Validated /\ \E k \in DOMAIN args.groups :
                  args.groups[k] \notin AllGroups(args.machines) \cup {"all"})
    => GroupsRefused

\* C7: the selector "all" resolves to the union of the group names of every
\* source, each once; an explicit list of existing names resolves to itself,
\* in the caller's order, within that union.
C7_ExpandGroups ==
  Validated =>
    IF args.groups[1] = "all"
    THEN /\ ~GroupsRefused
         /\ {groups[k] : k \in DOMAIN groups} = AllGroups(args.machines)
         /\ Len(groups) = Cardinality(AllGroups(args.machines))
    ELSE (\A k \in DOMAIN args.groups : args.groups[k] \in AllGroups(args.machines))
           => /\ ~GroupsRefused
              /\ groups = args.groups
              /\ {groups[k] : k \in DOMAIN groups} \subseteq AllGroups(args.machines)

C7_Witness ==
  /\ pc = "done"
  /\ args.groups[1] = "all"
  /\ Len(args.machines) = 2
  /\ groups = << "a", "b" >>

\* The first validation of execute that fails on a form, in the order
\* inventory, groups, device type, regex ("" when none fails).
FirstInvalid(a) ==
  IF ~a.fileOk THEN "400 Invalid machines file"
  ELSE IF \E v \in validate_groups(a.machines, a.groups) : v.raised # None
       THEN "400 KeyError"
  ELSE IF a.device_type \notin SUPPORTED_DEVICE_TYPES THEN "400 ValueError"
  ELSE IF a.output_regex = "(" THEN "400 Invalid output regex"
  ELSE ""

\* C8: a form with a validation error ends execute with the error of the
\* first failing validation, with no stream registered and no device
\* contacted; a form without one is not refused.
C8_ValidationAbortsFirst ==
  (args.via = "web" /\ pc # "init") =>
    /\ error \in {"KeyError", "gaierror", "UnicodeDecodeError"}
         \/ error = FirstInvalid(args)
    /\ FirstInvalid(args) # "" =>
         /\ pc = "rejected"
         /\ error = FirstInvalid(args)
         /\ cache = << >>
         /\ ~contacted
         /\ session = "none"
         /\ i = 0
         /\ emitted = << >>

C8_Witness ==
  /\ pc = "rejected"
  /\ error = "400 KeyError"
  /\ args.device_type = "bogus"
  /\ args.output_regex = "("

\* C9: with an empty command list or a single empty command, a device whose
\* session opened gets ConnectivityOnly and no command is sent.
C9_ProbeOnEmptyCommands ==
  (Handled /\ session = "closed" /\ args.cmds \in { << >>, << "" >> })
    => Kind(result) = "ConnectivityOnly" /\ sent = << >>

\* C10: ConnectivityOnly is produced in probe mode only: never when the
\* command list holds a non-empty command.
C10_ProbeModeOnly ==
  (Handled /\ Kind(result) = "ConnectivityOnly")
    => \A k \in DOMAIN args.cmds : args.cmds[k] = ""

\* The device type of the merged session parameters of the device in hand,
\* before any detection, and the constructor calls made for it.
Resolved == Merge(args.device_type, work[i].machine).device_type
Detects == SelectSeq(calls, LAMBDA c : c.fn = "SSHDetect")
Opens == SelectSeq(calls, LAMBDA c : c.fn = "ConnectHandler")
\* The detection of the device in hand returned (a type or None).
Detected == Detects # << >> /\ exc.at # "autodetect"

\* C11: a device is handed to SSHDetect exactly when its resolved device type
\* is "autodetect"; when the detection returns no type the outcome is
\* UnknownDeviceType and ConnectHandler is never called for the device; when
\* it returns a type, ConnectHandler is called once, with that type, and the
\* envelope carries that type.
C11_Autodetect ==
  (Handled \/ Yielded) =>
    /\ Len(Detects) = (IF Resolved = "autodetect" THEN 1 ELSE 0)
    /\ (Detected /\ Detects[1].returned = None) =>
         /\ Kind(result) = "UnknownDeviceType"
         /\ Opens = << >>
         /\ session = "none"
    /\ (Detected /\ Detects[1].returned # None) =>
         /\ Len(Opens) = 1
         /\ Opens[1].device.device_type = Detects[1].returned
         /\ session # "open"
         /\ Yielded => envelope.device_type = Detects[1].returned

C11_Witness ==
  /\ Yielded
  /\ Resolved = "autodetect"
  /\ Detected
  /\ Detects[1].returned = "linux"
  /\ session = "closed"
  /\ envelope.device_type = "linux"
  /\ Kind(envelope.result) = "Success"

\* The commands of the device in hand were run and returned their text.
CommandsRan == sent # << >> /\ exc.class = None

\* C12: with an output regex configured and commands run, the result is the
\* span of the leftmost match in the text the commands returned (Success),
\* or, when nothing matches, NoMatches carrying that whole text; the
\* envelope carries the same.
C12_RegexFilter ==
  ((Handled \/ Yielded) /\ output_regex.set /\ CommandsRan) =>
    /\ IF Starts(output_regex, raw) = {}
       THEN /\ Kind(result) = "NoMatches"
            /\ result.value = raw
       ELSE /\ Kind(result) = "Success"
            /\ \E a \in MatchesAt(output_regex, raw, Min(Starts(output_regex, raw))) :
                 result.value = output_regex.alts[a]
    /\ Yielded => envelope.result = result

C12_Witness ==
  /\ Yielded
  /\ args.output_regex = "up|link"
  /\ raw = << "OK:", "link", "up" >>
  /\ envelope.result = Str(<< "link" >>)

\* C13: a prompt-pattern list whose length differs from that of the command
\* list is treated as absent: no call made on the session carries an
\* expected-prompt pattern, and an empty list raises nothing in the dispatch.
C13_PromptPatternsAbsent ==
  Len(args.prompt_patterns) # Len(args.cmds) =>
    /\ \A c \in DOMAIN sent : \A k \in DOMAIN sent[c].items :
         sent[c].items[k][2] = None
    /\ (args.prompt_patterns = << >> /\ args.cmds # << >>)
         => exc # [class |-> "IndexError", at |-> "dispatch"]

\* The session of the device in hand was opened.
SessionOpened == Opens # << >> /\ exc.at # "open" /\ device.host # Absent

\* C14: a session is open only while its device is inside the `with` block:
\* none is open when the exception handlers run, when the envelope is built
\* or handed over, when the generator ends or when the next device begins
\* (so never two at once); every session that was opened is closed by then,
\* whatever happened in the block.
C14_SessionTornDown ==
  /\ session = "open" => pc \in {"dispatch", "close"}
  /\ Len(Opens) <= 1
  /\ (SessionOpened /\ pc \notin {"dispatch", "close"}) => session = "closed"
  /\ ~SessionOpened => session = "none"

C14_Witness ==
  /\ Yielded
  /\ i = 2
  /\ SessionOpened
  /\ exc = [class |-> "ReadException", at |-> "dispatch"]
  /\ session = "closed"

\* The transcript chunks netmiko wrote for the device in hand: one for each
\* constructor that reached the device and one for each dispatch.
TranscriptWritten ==
  (IF device.host = Absent THEN 0 ELSE Len(calls)) + Len(sent)

\* C15: the log of every envelope holds exactly the transcript written while
\* its device was handled: every chunk written for the device, and no chunk
\* of another device.
C15_TranscriptOfOwnDevice ==
  Yielded =>
    /\ envelope.log = log
    /\ Len(envelope.log) = TranscriptWritten
    /\ \A k \in DOMAIN envelope.log : envelope.log[k].dev = envelope.progress[1]

\* main.query has just printed its table.
Rendered == pc = "rendered"

\* Row a comes strictly before row b in the lexicographic order of the key
\* (Result, File, Group, Label, Hostname, IP, Device Type).
KeyOrder == << "Result", "File", "Group", "Label", "Hostname", "IP", "Device Type" >>
LexBefore(a, b) ==
  \E n \in DOMAIN KeyOrder :
    /\ \A m \in 1..(n - 1) : a.cell[KeyOrder[m]] = b.cell[KeyOrder[m]]
    /\ Ord(a.cell[KeyOrder[n]]) < Ord(b.cell[KeyOrder[n]])

\* The orders a list of rows can be given in.
Orderings(rows) ==
  { [k \in DOMAIN rows |-> rows[p[k]]] :
      p \in {q \in [DOMAIN rows -> DOMAIN rows] :
               \A x, y \in DOMAIN rows : x # y => q[x] # q[y]} }

\* C16: the rows of the table are in ascending lexicographic order of the
\* key, the table on display shows them in that order, and the same rows
\* given in any other order are displayed as the same table.
C16_SortedAndOrderIndependent ==
  Rendered =>
    /\ \A k \in 1..(Len(df.data) - 1) : ~LexBefore(df.data[k + 1], df.data[k])
    /\ \A k \in DOMAIN df.data :
         /\ df_clean.data[k].index = df.data[k].index
         /\ df.data[k].cell["Label"] = results[df.data[k].index + 1][3]
    /\ \A rows \in Orderings(results) :
         Shown(rows, args.machines, groups) = Display(df_clean)

C16_Witness ==
  /\ Rendered
  /\ Len(results) = 3
  /\ df.data[1].index = 2
  /\ df.data[2].index = 0
  /\ Display(df_clean).rows[1][1] = 0

\* The columns that are masked, from left to right.
Leading == << "Result", "File", "Group" >>
Shows(frame, column) == \E n \in DOMAIN frame.columns : frame.columns[n] = column
\* Row k of the sorted frame repeats the row before it in the first n of
\* the leading columns.
RepeatsPrefix(k, n) ==
  /\ k > 1
  /\ \A m \in 1..n : df.data[k].cell[Leading[m]] = df.data[k - 1].cell[Leading[m]]

\* C17: in the table on display a cell of Result, File or Group holds the
\* placeholder exactly when its row repeats the row before it in that column
\* and in every leading column to its left; otherwise it holds its value.
C17_PrefixMasking ==
  Rendered =>
    \A k \in DOMAIN df_clean.data : \A n \in DOMAIN Leading :
      Shows(df_clean, Leading[n]) =>
        df_clean.data[k].cell[Leading[n]] =
          (IF RepeatsPrefix(k, n) THEN Placeholder
           ELSE df.data[k].cell[Leading[n]])

C17_Witness ==
  /\ Rendered
  /\ Len(df.data) = 3
  /\ Shows(df_clean, "File") /\ Shows(df_clean, "Group")
  /\ df_clean.data[2].cell["Result"] = Placeholder
  /\ df_clean.data[2].cell["File"] = "f2"
  /\ df_clean.data[2].cell["Group"] = df.data[1].cell["Group"]
  /\ df_clean.data[3].cell["File"] = Placeholder
  /\ df_clean.data[3].cell["Group"] = "b"

Exported == output_file.writer # None

\* C19: the frame handed to the writer, whatever the format, has all eight
\* columns and the rows of the sorted frame, each row holding in every
\* column the value of the result row it was built from: the placeholders
\* and the dropped columns of the table on display are not in it.
C19_ExportUnmasked ==
  Exported =>
    /\ output_file.frame.columns = Reordered
    /\ Len(output_file.frame.data) = Len(results)
    /\ \A k \in DOMAIN output_file.frame.data :
         /\ output_file.frame.data[k].index = df.data[k].index
         /\ \A n \in DOMAIN Columns :
              output_file.frame.data[k].cell[Columns[n]]
                = results[output_file.frame.data[k].index + 1][n]
    /\ \A x, y \in DOMAIN output_file.frame.data :
         x # y => output_file.frame.data[x].index # output_file.frame.data[y].index

C19_Witness ==
  /\ Exported
  /\ output_file.writer = "to_json"
  /\ Len(df_clean.data) = 3
  /\ df_clean.data[2].cell["Result"] = Placeholder
  /\ df_clean.data[3].cell["File"] = Placeholder
  /\ output_file.frame.data[3].cell["File"] = "f2"
  /\ output_file.frame.data[2].cell["Result"] = "Timeout"
  /\ output_file.frame.data[2].cell["Log"] = "transcript"

\* The stream was requested, nobody cancelled it and its client stayed.
Uncancelled == args.via = "web" /\ i > 0 /\ ~event /\ ~disconnected
\* The generator of the stream is over, normally or with an exception.
StreamEnded == pc \in {"done", "crashed"}

\* C20: an uncancelled stream sends one event for each envelope that
\* query_machines yielded, in the order they were yielded, each with the row
\* of its envelope (the progress in it, an exception as its text), and when
\* it ends it has sent one more event, "finished", last, with the default
\* filename.
C20_StreamForwardsAll ==
  Uncancelled =>
    /\ (pc = "suspended" /\ last_event.event = "message") =>
         /\ last_event.data = Row(envelope)
         /\ envelope.result.type = "exc" => last_event.data.result = str(envelope.result)
         /\ Len(events) = Len(emitted)
    /\ \A k \in DOMAIN events :
         IF k <= Len(emitted) /\ events[k].event = "message"
         THEN events[k].progress = emitted[k].progress
         ELSE k = Len(events) /\ events[k].event = "finished"
    /\ StreamEnded =>
         /\ Len(events) = Len(emitted) + 1
         /\ last_event = ServerSentEvent("finished", gen_default_filename(args.cmds))

\* The stream was told to stop: its Event is set or its client is gone.
Cancelled == args.via = "web" /\ (event \/ disconnected)

\* C21: from the moment a stream is cancelled (its Event set, or its client
\* gone) no step of the generator opens a session, no device is completed
\* (no further envelope is yielded) and no further message event is sent.
C21_CancelStopsPromptly ==
  [][Cancelled =>
       /\ ~(session # "open" /\ session' = "open")
       /\ emitted' = emitted
       /\ (events' # events => events'[Len(events')].event = "finished")]_vars

\* C22: the Event of a stream may be set at any step of the generator, also
\* while the session of a device is open; whenever it was set, the session
\* of the device in hand is open only inside its `with` block, it is closed
\* by the time the wrapper looks at the Event, and no session is open when
\* the stream has ended.
C22_CancelLeaksNoSession ==
  (args.via = "web" /\ event) =>
    /\ session = "open" => pc \in {"dispatch", "close"}
    /\ (SessionOpened /\ pc \in {"forward", "finishing"}) => session = "closed"
    /\ StreamEnded => session # "open"

\* The Event was set while the session of the second device was open, and
\* the stream has ended with that session closed.
C22_Witness ==
  /\ args.via = "web"
  /\ event
  /\ pc = "done"
  /\ i = 2
  /\ SessionOpened
  /\ session = "closed"
  /\ Len(events) = 2
  /\ Len(emitted) = 2

(***************************************************************************)
(* server.cache under many registrations                                   *)
(***************************************************************************)
\* How many forms are posted, and how many half lifetimes the clock runs.
MaxIds == 27
MaxTicks == 2

\* A form that execute accepts.
StoreForm == CHOOSE a \in WebArgs : FirstInvalid(a) = ""

\* The ids stream is asked for: those of the first two registrations, at
\* any moment, so also before execute has made them.
Watched == {Id(1), Id(2)}

InitStore == Init /\ args = StoreForm

\* server.execute (lines 96-130) for a form that passes the validations: the
\* registration under a new id.  The parsed form stays in the generator
\* function that the cache holds.
StoreExecute ==
  /\ Len(registered) < MaxIds
  /\ Register
  /\ UNCHANGED << args, pc, error, groups, rerun_groups, output_regex, work, i,
                  deviceVars, outVars, contacted, cliVars, webVars, now,
                  response, streams >>
  /\ UNCHANGED << requested, gens >>

\* Half a lifetime goes by.
Tick ==
  /\ now < MaxTicks * (ttl \div 2)
  /\ now' = now + ttl \div 2
  /\ UNCHANGED << args, pc, error, cache, groups, rerun_groups, output_regex,
                  work, i, deviceVars, outVars, contacted, cliVars, webVars,
                  registered, response, streams >>
  /\ UNCHANGED << requested, gens >>

\* server.stream for one of the watched ids, at any moment.
StoreStream ==
  /\ \E id \in Watched : stream(id)
  /\ UNCHANGED << args, pc, error, groups, rerun_groups, output_regex, work, i,
                  deviceVars, outVars, contacted, cliVars, webVars, now,
                  registered >>
  /\ UNCHANGED << requested, gens >>

NextStore ==
  \/ StoreExecute
  \/ Tick
  \/ StoreStream

SpecStore == InitStore /\ [][NextStore]_vars

\* The id was registered and its lifetime is not over.
Unexpired(id) ==
  \E k \in DOMAIN registered : registered[k].key = id /\ now < registered[k].at + ttl
\* server.stream already made a generator for the id.
Consumed(id) == \E k \in DOMAIN streams : streams[k] = id
\* This step is a call of server.stream for the id.
StreamCalled(id) ==
  /\ response'.id = id
  /\ now' = now
  /\ registered' = registered
  /\ response' # response \/ streams' # streams
\* The response is the "not found" one, raised or returned.
NotFound(r) ==
  "HTTPException(404, Not found)" \in {r.raised, r.value}

\* C23: a call of stream for a registered, unexpired id that no earlier call
\* consumed takes the id out of the pending store and starts its stream; a
\* call for any other id (consumed, expired or never registered) gives "not
\* found" and starts nothing.  So no id is consumed twice.
C23_ConsumedAtMostOnce ==
  [][\A id \in Watched : StreamCalled(id) =>
       IF Unexpired(id) /\ ~Consumed(id)
       THEN /\ streams' = Append(streams, id)
            /\ ~contains(cache', id, now)
            /\ response'.value = "EventSourceResponse"
       ELSE /\ NotFound(response')
            /\ streams' = streams
            /\ cache' = cache]_vars

\* One result of each of the four failure kinds that netquery names.
NamedFailures ==
  {Exc(c, << >>) : c \in {"NetqueryUnauthorizedException", "NetqueryTimeoutException",
                          "NetqueryUnknownDeviceTypeException",
                          "NetqueryNoMatchesException"}}

\* C24: the event sent for an envelope whose outcome is Unauthorized,
\* TimedOut, UnknownDeviceType or NoMatches carries a result text that no
\* outcome of another of these kinds would give, and that is not the
\* generic text "exception".
C24_KindsRenderedDistinctly ==
  (/\ args.via = "web"
   /\ pc = "suspended"
   /\ last_event.event = "message"
   /\ Kind(envelope.result) \in {Kind(r) : r \in NamedFailures}) =>
    /\ \A r \in NamedFailures :
         Kind(r) # Kind(envelope.result) => str(r) # last_event.data.result
    /\ last_event.data.result # << "exception" >>

\* The id was registered and its lifetime is over.
Expired(id) ==
  \E k \in DOMAIN registered : registered[k].key = id /\ now >= registered[k].at + ttl

\* C25: every entry of the pending store ends ttl seconds after its own
\* registration, whatever was asked of the store since; from then on the
\* store does not hold the id, consumed or not, and a call of stream for it
\* gives "not found" and starts nothing.
C25_TimeToLive ==
  [][/\ \A k \in DOMAIN cache : \E r \in DOMAIN registered :
          /\ registered[r].key = cache[k].key
          /\ cache[k].expires = registered[r].at + ttl
     /\ \A r \in DOMAIN registered :
          now >= registered[r].at + ttl => ~contains(cache, registered[r].key, now)
     /\ \A id \in Watched : (StreamCalled(id) /\ Expired(id)) =>
          /\ NotFound(response')
          /\ streams' = streams]_vars

\* The first registration was never consumed, the second was, a lifetime
\* has gone by and a call for the first has given "not found".
C25_Witness ==
  /\ Len(registered) = 2
  /\ registered[1].at = 0
  /\ now >= ttl
  /\ streams = << Id(2) >>
  /\ response.id = Id(1)
  /\ NotFound(response)

\* C26: the k-th envelope of a run carries the progress k / len(work): the
\* fractions are above 0 and at most 1, grow strictly from one envelope to
\* the next, and are 1 on the len(work)-th envelope only, which is the last
\* one of a run that came to its end; the envelope and the event of the
\* stream carry the fraction too.  A run over an empty work list ends
\* without an envelope and without an error.
C26_Progress ==
  /\ \A k \in DOMAIN emitted :
       /\ emitted[k].progress = << k, Len(work) >>
       /\ 0 < emitted[k].progress[1]
       /\ emitted[k].progress[1] <= emitted[k].progress[2]
       /\ k > 1 => emitted[k - 1].progress[1] < emitted[k].progress[1]
       /\ emitted[k].progress[1] = emitted[k].progress[2] <=> k = Len(work)
  /\ Len(emitted) <= Len(work)
  /\ emitted # << >> => envelope.progress = emitted[Len(emitted)].progress
  /\ (pc = "done" /\ args.via # "web") => Len(emitted) = Len(work)
  /\ (pc = "next" /\ work = << >>) => (emitted = << >> /\ error = "")
  /\ (pc = "yield" /\ i = 1) => emitted = << >>

\* A run of three devices came to its end.
C26_Witness ==
  /\ pc = "done"
  /\ Len(work) = 3
  /\ Len(emitted) = 3
  /\ envelope.progress = << 3, 3 >>

\* The example of the specification was run: r1 printed "IOS 15.2" and r2
\* timed out, and the table is rendered.
ExampleRun ==
  /\ Rendered
  /\ args.machines = ExampleInventory
  /\ groups = << "core" >>
  /\ args.cmds = << "show version" >>
  /\ Len(results) >= 2
  /\ results[1][3] = "r1" /\ results[1][7] = "IOS 15.2"
  /\ results[2][3] = "r2" /\ results[2][7] = "Timeout"

\* C27: the example gives two rows, "IOS 15.2" for r1 and the timeout for
\* r2; the sorted table has the row of the timeout first and the row of
\* "IOS 15.2" second, and shows neither the File nor the Group column.
C27_ExampleScenario ==
  ExampleRun =>
    /\ Len(results) = 2
    /\ Len(df_clean.data) = 2
    /\ df_clean.data[1].cell["Label"] = "r2"
    /\ df_clean.data[1].cell["Result"] = "Timeout"
    /\ df_clean.data[2].cell["Label"] = "r1"
    /\ df_clean.data[2].cell["Result"] = "IOS 15.2"
    /\ \A n \in DOMAIN df_clean.columns : df_clean.columns[n] \notin {"File", "Group"}

\* Device type names a caller may give: supported ones, the sentinel, and
\* names netmiko does not know.
DeviceTypeNames == {"autodetect", "linux", "cisco_ios", "bogus", "", "Linux", None}

C29_ExportFormat ==
  /\ pc = "done" =>
       IF output_file.output = "False"
       THEN /\ output_file.writer = None
            /\ output_file.frame = NoFrame
            /\ output_file.warning = None
       ELSE /\ output_file.output \in {"out.html"} =>
                 output_file.writer = "to_html" /\ output_file.warning = None
            /\ output_file.output \in {"out.csv", "default.csv"} =>
                 output_file.writer = "to_csv" /\ output_file.warning = None
            /\ output_file.output \in {"out.json", "x.json"} =>
                 output_file.writer = "to_json" /\ output_file.warning = None
            /\ output_file.output \in {"out.txt"} =>
                 output_file.writer = "to_string" /\ output_file.warning = None
            /\ output_file.output \in {"out.xml"} =>
                 /\ output_file.writer = "to_string"
                 /\ output_file.warning = "Unknown extension, outputted in TXT format."
            /\ output_file.writer # None
            /\ output_file.frame = df
            /\ Len(output_file.frame.data) = Len(results)
  /\ pc # "done" => output_file = NoFile

\* A path with an unknown suffix was given and two rows were written.
C29_Witness ==
  /\ pc = "done"
  /\ output_file.output = "out.xml"
  /\ output_file.writer = "to_string"
  /\ output_file.warning # None
  /\ Len(output_file.frame.data) = 2

\* The session of the device in hand was opened and has been left, and the
\* command list does not ask for the probe.
Dispatched ==
  /\ Handled
  /\ session = "closed"
  /\ args.cmds # << >>
  /\ ~ProbeMode(args.cmds)

\* C30: for a device whose session opened in non-probe mode exactly one
\* call was made on the session.  With one command it is send_command with
\* the command and the first pattern, or no pattern when that is empty.
\* With more commands it is send_multiline with one item per command, in
\* the order of the command list, each paired with its pattern when the two
\* lists have the same length.
C30_DispatchOnce ==
  Dispatched =>
    /\ Len(sent) = 1
    /\ Len(args.cmds) = 1 =>
         /\ sent[1].fn = "send_command"
         /\ Len(sent[1].items) = 1
         /\ sent[1].items[1][1] = args.cmds[1]
         /\ sent[1].items[1][2] = IF args.prompt_patterns[1] = "" THEN None
                                   ELSE args.prompt_patterns[1]
    /\ Len(args.cmds) > 1 =>
         /\ sent[1].fn = "send_multiline"
         /\ Len(sent[1].items) = Len(args.cmds)
         /\ \A k \in DOMAIN args.cmds :
              /\ sent[1].items[k][1] = args.cmds[k]
              /\ Len(args.prompt_patterns) = Len(args.cmds) =>
                   sent[1].items[k][2] = args.prompt_patterns[k]


\* The descriptor of the device in hand, as the inventory holds it.
Descriptor == work[i].machine
\* The session parameters the device in hand started with: those of its
\* first constructor call, or the ones in hand while none was made.
Parameters == IF calls = << >> THEN device ELSE calls[1].device
InHand == i > 0 /\ device # NoDevice

\* C31: the session parameters of a device are the run-wide credentials,
\* default device type and fresh log overridden by the device's descriptor:
\* every key the descriptor holds keeps the descriptor's value, every other
\* key gets the run-wide value, and no step changes the inventory.
C31_DescriptorOverridesDefaults ==
  /\ [](InHand =>
          \A key \in {"username", "password", "device_type", "session_log"} :
            /\ Descriptor[key] # Absent => Parameters[key] = Descriptor[key]
            /\ Descriptor[key] = Absent =>
                 Parameters[key] =
                   [username |-> username, password |-> password,
                    device_type |-> args.device_type,
                    session_log |-> "BytesIO"][key])
  /\ [][args.machines' = args.machines]_vars

C31_Witness ==
  /\ InHand
  /\ Opens # << >>
  /\ Descriptor.username = "netops"
  /\ Descriptor.device_type = Absent
  /\ Parameters.username = "netops"
  /\ Parameters.password = "s3cret"
  /\ Parameters.device_type = args.device_type
  /\ \E a \in DOMAIN args.machines[1].groups[1].devices :
       args.machines[1].groups[1].devices[a].machine = Descriptor


\* C32: no retry.  The device in hand gets at most one SSHDetect call and at
\* most one ConnectHandler call, whatever they did; the enumeration only
\* moves forward, one device at a time; once the envelope of a device was
\* yielded no further call is made for it, and the k-th envelope emitted is
\* that of the k-th device.
C32_NoRetry ==
  /\ [](/\ Len(Detects) <= 1
        /\ Len(Opens) <= 1
        /\ \A k \in DOMAIN emitted : emitted[k].progress[1] = k)
  /\ [][/\ i' \in {i, i + 1}
        /\ i' = i + 1 => calls' = << >>
        /\ i' = i => \/ calls' = calls
                     \/ /\ ~Yielded
                        /\ Len(calls') = Len(calls) + 1
                        /\ SubSeq(calls', 1, Len(calls)) = calls]_vars

C32_Witness ==
  /\ Yielded
  /\ i = 2
  /\ Len(emitted) = 2
  /\ Len(Detects) = 1
  /\ Len(Opens) = 1
  /\ exc = [class |-> "NetmikoTimeoutException", at |-> "open"]


\* The consumer has abandoned the sequence.
Abandoned == pc = "closed"
\* The steps that work on a device: the enumeration, the constructor calls,
\* the session, the commands and the transcript.
DeviceWork == << i, calls, session, sent, log, contacted >>

\* C33: the envelope sequence is lazy and pull-driven.  A registered query
\* whose stream was not asked for has contacted no device and begun none;
\* while the consumer has no request pending, the envelopes handed out are
\* those of the devices begun so far and no step works on a device; every
\* step that works on a device is taken while a request of the consumer is
\* pending; and once the consumer abandoned the sequence after k envelopes,
\* nothing is done for any device from then on.
C33_LazyPullDriven ==
  /\ [](/\ pc = "registered" => (~contacted /\ i = 0 /\ calls = << >>)
        /\ (pc \in {"suspended", "closed"} /\ i > 0) =>
             (~requested /\ Len(emitted) = i /\ session # "open"))
  /\ [][/\ DeviceWork' # DeviceWork => requested
        /\ Abandoned => (Abandoned' /\ DeviceWork' = DeviceWork
                         /\ emitted' = emitted /\ events' = events)]_vars

\* The consumer took the first of three envelopes and abandoned the
\* sequence: the second and third device were never begun.
C33_Witness ==
  /\ Abandoned
  /\ Len(work) = 3
  /\ i = 1
  /\ Len(emitted) = 1
  /\ contacted


(***************************************************************************)
(* Several streams side by side.  Each registered id has a generator of    *)
(* its own (server.py lines 45-62) with an Event of its own, the generators *)
(* are stepped in any order, and stopStream is called for any id at any    *)
(* moment.  What query_machines does for a stream is kept to what the      *)
(* wrapper sees of it: the next envelope, the end of the sequence, or an   *)
(* exception.                                                              *)
(***************************************************************************)
\* The envelopes query_machines has for each stream.
Rows == 2
\* The ids stopStream is called with: those of the streams and one that
\* execute never gave out.
CancelIds == StreamIds \cup {"id0"}

\* What the model keeps of an event: "message" with the number of its
\* envelope, or "finished".
Message(k) == [event |-> IF k = 0 THEN "finished" ELSE "message", row |-> k]

InitTwo == Init /\ args = StoreForm

twoFrame ==
  << args, pc, error, groups, rerun_groups, output_regex, work, i, deviceVars,
     outVars, contacted, cliVars, event, disconnected, events, last_event,
     now, requested >>

\* server.execute for a form that passes the validations.
TwoExecute ==
  /\ Len(registered) < Cardinality(StreamIds)
  /\ Register
  /\ UNCHANGED << twoFrame, stop, response, streams, gens >>

\* server.stream for an id; the generator it makes for a pending id is
\* iterated by the transport, and its first line (46) puts a new Event in
\* the registry under the id.
TwoStream ==
  /\ \E id \in StreamIds :
       /\ stream(id)
       /\ IF contains(cache, id, now)
          THEN /\ gens' = [gens EXCEPT ![id] = [NoGen EXCEPT !.pc = "fetch"]]
               /\ stop' = stop \cup {id}
          ELSE UNCHANGED << gens, stop >>
  /\ UNCHANGED << twoFrame, registered >>

\* Line 48: the generator asks async_gen for the next envelope and gets it,
\* gets the end of the sequence, or gets the exception query_machines
\* raised (core.py 133-143), which ends the generator.
Fetch ==
  /\ \E id \in StreamIds :
       /\ gens[id].pc = "fetch"
       /\ \E raises \in BOOLEAN :
            gens' = [gens EXCEPT ![id] =
              IF gens[id].fetched = Rows
              THEN [gens[id] EXCEPT !.pc = "finishing"]
              ELSE IF raises
                   THEN [gens[id] EXCEPT !.pc = "crashed"]
                   ELSE [gens[id] EXCEPT !.pc = "check", !.fetched = @ + 1]]
  /\ UNCHANGED << twoFrame, storeVars, cache, stop >>

\* Lines 49-55: the generator leaves the loop when its client is gone or its
\* own Event is set, and yields the event of the envelope otherwise.
Check ==
  /\ \E id \in StreamIds :
       /\ gens[id].pc = "check"
       /\ gens' = [gens EXCEPT ![id] =
            IF gens[id].gone \/ gens[id].set
            THEN [gens[id] EXCEPT !.pc = "finishing"]
            ELSE [gens[id] EXCEPT !.pc = "suspended",
                                 !.sent = Append(@, Message(gens[id].fetched))]]
  /\ UNCHANGED << twoFrame, storeVars, cache, stop >>

\* Lines 57-60: the terminal event is yielded.
TwoFinished ==
  /\ \E id \in StreamIds :
       /\ gens[id].pc = "finishing"
       /\ gens' = [gens EXCEPT ![id] =
            [gens[id] EXCEPT !.pc = "suspended", !.sent = Append(@, Message(0))]]
  /\ UNCHANGED << twoFrame, storeVars, cache, stop >>

\* The transport asks a suspended generator for its next event: after the
\* terminal event the generator runs stop.pop(id, None) (line 62) and ends,
\* after any other it goes round its loop.
Resume ==
  /\ \E id \in StreamIds :
       /\ gens[id].pc = "suspended"
       /\ IF gens[id].sent[Len(gens[id].sent)] = Message(0)
          THEN /\ gens' = [gens EXCEPT ![id].pc = "done"]
               /\ stop' = stop \ {id}
          ELSE /\ gens' = [gens EXCEPT ![id].pc = "fetch"]
               /\ UNCHANGED stop
  /\ UNCHANGED << twoFrame, storeVars, cache >>

\* The transport closes a generator that is suspended at an event: no line
\* after that yield runs.
TwoClose ==
  /\ \E id \in StreamIds :
       /\ gens[id].pc = "suspended"
       /\ gens' = [gens EXCEPT ![id].pc = "closed"]
  /\ UNCHANGED << twoFrame, storeVars, cache, stop >>

\* server.stopStream (lines 141-146) for any id at any moment: it sets the
\* Event the registry holds for the id, if it holds one, and answers with
\* an empty Response either way.
TwoStopStream ==
  /\ \E id \in CancelIds :
       /\ response' = [id |-> id, raised |-> None, value |-> "Response"]
       /\ IF id \in stop
          THEN gens' = [gens EXCEPT ![id].set = TRUE, ![id].asked = TRUE]
          ELSE UNCHANGED gens
  /\ UNCHANGED << twoFrame, cache, stop, now, registered, streams >>

\* The client of a stream goes away.
TwoDisconnect ==
  /\ \E id \in StreamIds :
       /\ gens[id].pc \notin {"pending", "done", "crashed", "closed"}
       /\ ~gens[id].gone
       /\ gens' = [gens EXCEPT ![id].gone = TRUE]
  /\ UNCHANGED << twoFrame, storeVars, cache, stop >>

NextTwo ==
  \/ TwoExecute
  \/ TwoStream
  \/ Fetch
  \/ Check
  \/ TwoFinished
  \/ Resume
  \/ TwoClose
  \/ TwoStopStream
  \/ TwoDisconnect

SpecTwo == InitTwo /\ [][NextTwo]_vars


\* Everything a stream of Rows envelopes sends when nothing stops it.
AllSent == [k \in 1..(Rows + 1) |-> Message(IF k <= Rows THEN k ELSE 0)]
\* The generator of the id is over, by its own end or by an exception.
Over(id) == gens[id].pc \in {"done", "crashed"}
\* The step is a stopStream call for the id.
Cancels(id) ==
  /\ response' = [id |-> id, raised |-> None, value |-> "Response"]
  /\ \/ response' # response
     \/ id \in StreamIds /\ gens'[id].set # gens[id].set

\* C34: cancellation tokens are per stream.  The Event of a stream is set
\* only by a stopStream call for its own id, such a call changes nothing of
\* any other stream, and a stream for whose id stopStream was never called
\* and whose client stayed has, when its generator is over, sent every one
\* of its envelopes and then its finished event, whatever the other stream
\* and the stopStream calls did in between.
C34_TokensPerStream ==
  /\ [](\A id \in StreamIds :
          /\ gens[id].set => gens[id].asked
          /\ (Over(id) /\ ~gens[id].asked /\ ~gens[id].gone) =>
               gens[id].sent = AllSent)
  /\ [][\A id \in CancelIds :
          Cancels(id) =>
            \A other \in StreamIds \ {id} : gens'[other] = gens[other]]_vars

\* The same with the streams whose generator raised left aside.
C34_UnlessRaised ==
  /\ [](\A id \in StreamIds :
          /\ gens[id].set => gens[id].asked
          /\ (gens[id].pc = "done" /\ ~gens[id].asked /\ ~gens[id].gone) =>
               gens[id].sent = AllSent)
  /\ [][\A id \in CancelIds :
          Cancels(id) =>
            \A other \in StreamIds \ {id} : gens'[other] = gens[other]]_vars


\* No generator of the id is running: the id is unknown, its stream was not
\* asked for yet, or its generator is over or was closed.
NotRunning(id) ==
  id \notin StreamIds \/ gens[id].pc \in {"pending", "done", "crashed", "closed"}
\* The step starts the stream of the id.
StreamStarts(id) == gens[id].pc = "pending" /\ gens'[id].pc # "pending"

\* C35: a stopStream call for an id that has no running generator changes
\* nothing: every token, the registry and the pending store stay as they
\* were and the call answers with its empty Response; and a stream started
\* afterwards for the id starts with a new, unset token in the registry.
C35_CancelWithoutGenerator ==
  /\ [][\A id \in CancelIds :
          (Cancels(id) /\ NotRunning(id)) =>
            /\ gens' = gens
            /\ stop' = stop
            /\ cache' = cache
            /\ response'.raised = None]_vars
  /\ [][\A id \in StreamIds :
          StreamStarts(id) => (id \in stop' /\ ~gens'[id].set /\ ~gens'[id].asked)]_vars

\* The same for the ids that have no token in the registry.
C35_UnlessTokenLeft ==
  /\ [][\A id \in CancelIds :
          (Cancels(id) /\ NotRunning(id) /\ id \notin stop) =>
            /\ gens' = gens
            /\ stop' = stop
            /\ cache' = cache
            /\ response'.raised = None]_vars
  /\ [][\A id \in StreamIds :
          StreamStarts(id) => (id \in stop' /\ ~gens'[id].set /\ ~gens'[id].asked)]_vars


\* The generator of the stream ran to its end.
RanToEnd == args.via = "web" /\ pc = "done"
\* The message events sent so far.
Messages == SelectSeq(events, LAMBDA e : e.event = "message")

\* C36: a stream generator that ran to its end has sent "finished" exactly
\* once and last.  Either every envelope of the work list was forwarded
\* before it, or the loop was left at a set Event or a gone client, and then
\* every envelope but the one in hand at that moment was forwarded: that
\* one is in no event.  No step sends anything after "finished", and the
\* loop test sends nothing when it finds the stream cancelled.
C36_FinishedOnceAndLast ==
  /\ [](/\ \A k \in DOMAIN events :
             events[k].event = "finished" => k = Len(events)
        /\ RanToEnd =>
             /\ events # << >>
             /\ events[Len(events)].event = "finished"
             /\ last_event = ServerSentEvent("finished", gen_default_filename(args.cmds))
             /\ Len(events) = Len(Messages) + 1
             /\ \A k \in DOMAIN Messages : Messages[k].progress = emitted[k].progress
             /\ \/ Len(Messages) = Len(emitted) /\ Len(emitted) = Len(work)
                \/ /\ Len(Messages) = Len(emitted) - 1
                   /\ event \/ disconnected
                   /\ \A k \in DOMAIN events : events[k].progress # envelope.progress)
  /\ [][(pc = "forward" /\ (event \/ disconnected)) => events' = events]_vars

\* The Event was set while the second of three devices was handled: the
\* stream sent the first envelope and "finished", and ran to its end.
C36_Witness ==
  /\ RanToEnd
  /\ event
  /\ Len(work) = 3
  /\ Len(emitted) = 2
  /\ Len(events) = 2
  /\ events[1].event = "message"
  /\ events[2].event = "finished"


\* The stream was not asked for yet.
NotStreamed == pc \in {"init", "rejected", "registered"}

\* C37: the registry holds the token of the stream exactly while its
\* generator is iterated: none before the stream is asked for, one from the
\* first step of the generator on, and none once the stream has ended, by
\* running to its end (all envelopes sent, Event set or client gone) or by
\* being closed while suspended at an event.
C37_TokenOnlyWhileIterated ==
  args.via = "web" =>
    /\ NotStreamed => stop = {}
    /\ (~NotStreamed /\ pc \notin {"done", "closed", "crashed"}) => StreamId \in stop
    /\ pc \in {"done", "closed"} => StreamId \notin stop

\* The same for the streams that ran to their end.
C37_UnlessClosed ==
  args.via = "web" =>
    /\ NotStreamed => stop = {}
    /\ (~NotStreamed /\ pc \notin {"done", "closed", "crashed"}) => StreamId \in stop
    /\ pc = "done" => StreamId \notin stop


\* The session of the device in hand was opened for a probe: a command
\* list whose first command is empty.
Probed == SessionOpened /\ args.cmds # << >> /\ args.cmds[1] = ""
\* The result of the device in hand is settled.
Settled == i > 0 /\ (Handled \/ Yielded)

\* C38: only what the commands returned is post-processed.  A probe sends
\* nothing and its result is the marker as it stands, whatever output regex
\* is configured, never NoMatches; the result of a device whose handling
\* raised is what the except clauses made of the exception, and that of a
\* device without a type is UnknownDeviceType; NoMatches is the result only
\* of commands that ran under a configured regex that their text lacks.
C38_OnlyCommandResultsFiltered ==
  Settled =>
    /\ Probed =>
         /\ sent = << >>
         /\ result.class # "NetqueryNoMatchesException"
         /\ exc.class = None => result = Str(<< "Accessible" >>)
    /\ exc.class # None =>
         result = Exc(IF exc.class = "NetmikoAuthenticationException"
                      THEN "NetqueryUnauthorizedException"
                      ELSE IF exc.class = "NetmikoTimeoutException"
                           THEN "NetqueryTimeoutException"
                           ELSE exc.class, << >>)
    /\ (calls # << >> /\ Opens = << >> /\ exc.class = None) =>
         result = Exc("NetqueryUnknownDeviceTypeException", << >>)
    /\ result.class = "NetqueryNoMatchesException" =>
         /\ CommandsRan
         /\ output_regex.set
         /\ ~search(output_regex, raw).found
         /\ result.value = raw

\* A probe under a configured output regex: the result is the marker.
C38_Witness ==
  /\ Settled
  /\ Probed
  /\ output_regex.set
  /\ ~search(output_regex, << "Accessible" >>).found
  /\ exc.class = None
  /\ result = Str(<< "Accessible" >>)

====
